---- MODULE Spec2Model ----
(***************************************************************************)
(* The checkpointed, interruptible sentiment processor of DaxTracker3:     *)
(* InterruptibleMLProcessor (src/ml_processor.py) driving                  *)
(* FinBERTSentimentAnalyzer.process_news_batch (src/sentiment_analyzer.py) *)
(* over the news_data table, with its two checkpoint files, the            *)
(* sentiment_results table, the pause/terminate requests, store failures   *)
(* and process crashes; the signal generator (src/signal_generator.py,     *)
(* src/run_signal_generator.py) that fuses the latest technical analysis   *)
(* of a symbol with its recent sentiment; the notifier job                 *)
(* (src/run_notifier.py, src/notification_system.py) that sends the        *)
(* signals not yet notified under its quiet hours and weekend policy; and  *)
(* the supervisor (src/system_monitor.py) that records the state of the    *)
(* workers and starts those that do not run.                               *)
(***************************************************************************)
EXTENDS Integers, Sequences, FiniteSets, TLC

\* Bounds of the model.
MaxNews == 3      \* news rows that are ever inserted (rowid 1..MaxNews)
BatchSize == 2    \* batch_size passed to process() (10 in run_ml_processor.py)
MaxRuns == 2      \* invocations of the signal generation job
MaxDays == 2      \* days the clock of the notifier advances past its first day
MaxPolls == 2     \* polls of the supervisor

VARIABLES
    news,               \* news_data: rowids 1..news exist
    store,              \* sentiment_results: the number of rows of each news_id
    last_news_id,       \* InterruptibleMLProcessor.current_state['last_news_id']
    proc_file,          \* processor_checkpoint.json: last_news_id
    last_processed_id,  \* FinBERTSentimentAnalyzer.current_state['last_processed_id']
    sent_file,          \* sentiment_checkpoint.json: last_processed_id
    pause_event,        \* threading.Event shared by processor and analyzer
    shutdown_flag,      \* threading.Event
    pc,                 \* position of the main thread
    news_items,         \* the list fetch_unprocessed_news returned (ids)
    results,            \* the results list of process_news_batch (ids)
    i,                  \* start offset of the current batch (range(0, len, batch_size))
    j,                  \* 1-based position of the current item in news_items
    scored,             \* history: ids whose scoring has succeeded at least once
    failed,             \* history: ids whose latest scoring attempt failed
    scoredRun,          \* history: ids scored successfully by the running process
    prevRun,            \* history: ids the last crashed process had scored
    rescored,           \* history: ids of prevRun attempted again since the restart
    replaced,           \* history: ids whose row a later save has written again
    since_pause,        \* history: items analysed since pause_event was last set
    technical_analysis, \* technical_analysis rows of each symbol, most recent first
    sentiment_rows,     \* sentiment_results JOIN news_data of each symbol, most recent first
    trading_signals,    \* trading_signals rows; the id of a row is its position
    f_pc,               \* position of the signal generation job
    f_k,                \* position in symbols of the symbol generate_signals is at
    f_signals,          \* the signals list of the running generate_signals
    f_outcome,          \* history: what this invocation did for each symbol
    f_last,             \* history: what the latest earlier invocation did for it
    f_runs,             \* history: invocations of the signal generation job so far
    g_pc,               \* position of the notifier job
    g_signals,          \* the list get_unnotified_signals returned (ids)
    g_k,                \* position in g_signals of the signal being sent
    g_result,           \* what send_signal returned for it
    delivered,          \* history: ids of the signals whose send has succeeded
    g_failed,           \* history: ids whose send raised in the latest invocation
    g2_pc,              \* position of the job of a second notifier process
    g2_signals,         \* the list get_unnotified_signals returned to it (ids)
    g2_k,               \* position in g2_signals of the signal it is sending
    g2_result,          \* what send_signal returned to it
    overlapped,         \* history: a job has started while the other process's ran
    config,             \* TelegramNotifier.config (notification_config.json)
    weekday,            \* datetime.now().weekday(): 0 is Monday, 6 is Sunday
    today,              \* datetime.now(): its date, in days since the first day
    clock,              \* datetime.now().time(), in minutes since midnight
    summary,            \* history: the latest daily summary job
    running,            \* the process table: whether the script of a role runs
    instances,          \* the process table: the processes that run the script of a role
    script_exists,      \* os.path.exists(script_path) of the script of a role
    system_status,      \* system_status rows; the id of a row is its position
    m_pc,               \* position of the supervisor in run_monitoring
    m_k,                \* position in script_mapping of the role looked at
    m_status,           \* status in check_and_restart_processes
    m_saved,            \* history: how save_status ended in this poll
    m_attempts,         \* history: restart_process calls of this poll, by role
    m_failed,           \* history: roles whose restart_process failed in this poll
    m_prev_failed,      \* history: the same of the poll before
    m_polls             \* history: polls started so far

proc_vars == <<news, store, last_news_id, proc_file, last_processed_id, sent_file,
               pause_event, shutdown_flag, pc, news_items, results, i, j,
               scored, failed, scoredRun, prevRun, rescored, replaced, since_pause>>

fusion_vars == <<technical_analysis, sentiment_rows, f_pc, f_k, f_signals,
                 f_outcome, f_last, f_runs>>

second_vars == <<g2_pc, g2_signals, g2_k, g2_result>>

gate_vars == <<g_pc, g_signals, g_k, g_result, delivered, g_failed, second_vars,
               overlapped>>

\* The notification policy and the wall clock.
clock_vars == <<config, weekday, today, clock>>

\* What neither the stream processor, nor the signal generation job, nor the
\* notification job writes.
\* The supervisor and what it watches.
monitor_vars == <<running, instances, script_exists, system_status, m_pc, m_k, m_status,
                  m_saved, m_attempts, m_failed, m_prev_failed, m_polls>>

outer_vars == <<clock_vars, summary, monitor_vars>>

\* What the stream processor neither reads nor writes in this model.
signal_vars == <<fusion_vars, trading_signals, gate_vars, outer_vars>>

vars == <<proc_vars, signal_vars>>

hist == <<scored, failed, scoredRun, prevRun, rescored, replaced, since_pause>>

Range(s) == {s[k] : k \in 1..Len(s)}

MaxOf(S) == CHOOSE m \in S : \A x \in S : x <= m

MinOf(a, b) == IF a <= b THEN a ELSE b

alive == pc # "down"

\* The news_ids that have a row in sentiment_results.
stored == {k \in DOMAIN store : store[k] > 0}

(***************************************************************************)
(* Checkpoint files.  A missing file and a file holding 0 give the same    *)
(* state, so a file is modelled by the id it holds; a file json.load       *)
(* cannot read holds Unreadable.                                           *)
(***************************************************************************)
\* The content of a checkpoint file that json.load raises on.
Unreadable == -1

\* A restart that comes up with the default state although the file exists.
proc_load_default(file) == 0

\* InterruptibleMLProcessor._load_checkpoint: state = json.load(f); return state;
\* except Exception: the error is logged and default_state is returned.
proc_load_checkpoint(file) == IF file = Unreadable THEN 0 ELSE file

\* A load that hands on whatever the file holds.
sent_load_unguarded(file) == file

\* FinBERTSentimentAnalyzer._load_checkpoint: self.current_state = json.load(f);
\* except Exception: the error is logged and current_state keeps its initial 0.
sent_load_checkpoint(file) == IF file = Unreadable THEN 0 ELSE file

\* _save_checkpoint: json.dump(self.current_state, f)
save_checkpoint(state) == state

\* SELECT rowid ... FROM news_data WHERE rowid > ? ORDER BY rowid
fetch_unprocessed_news(last) ==
    [k \in 1..(IF news > last THEN news - last ELSE 0) |-> last + k]

\* max(r['id'] for r in results)
new_last_news_id(res) == MaxOf(Range(res))

\* news_items[i:i + batch_size]: the 1-based position of its last item
batch_last(items, start) == MinOf(start + BatchSize, Len(items))

(***************************************************************************)
(* The signal generator and the notifier before they have run.             *)
(***************************************************************************)
\* The symbols an invocation goes through, in this order
\* (STOCK_SYMBOLS + INDEX_SYMBOLS has eleven).
Symbols == <<"AAPL", "^GDAXI">>

SymbolSet == Range(Symbols)

\* No step of generate_signals has been made for the symbol.
NoOutcome ==
    [kind |-> "none", tech_signal |-> "NEUTRAL", tech_strength |-> 0,
     sent_signal |-> "NEUTRAL", sent_strength |-> 0,
     combined_signal |-> "NEUTRAL", combined_strength |-> 0,
     emitted |-> FALSE, reason |-> <<>>]

\* signals = [] has not been assigned: no invocation is running.
GeneratorIdle ==
    /\ f_pc = "idle"
    /\ f_k = 0
    /\ f_signals = <<>>
    /\ f_outcome = [s \in SymbolSet |-> NoOutcome]
    /\ f_last = [s \in SymbolSet |-> NoOutcome]
    /\ f_runs = 0

\* The notifier job is not running and has sent nothing.
NotifierIdle ==
    /\ g_pc = "idle"
    /\ g_signals = <<>>
    /\ g_k = 0
    /\ g_result = FALSE
    /\ delivered = {}
    /\ g_failed = {}
    /\ g2_pc = "idle"
    /\ g2_signals = <<>>
    /\ g2_k = 0
    /\ g2_result = FALSE
    /\ overlapped = FALSE

\* datetime.strptime(s, '%H:%M').time() of the string hh:mm
HM(h, m) == h * 60 + m

\* TelegramNotifier._load_config: default_config, written when the file is missing
\* (minimum_confidence and last_notification are read by no decision).
default_config ==
    [quiet_hours |-> [enabled |-> TRUE, start |-> HM(22, 0), end |-> HM(7, 30)],
     weekends |-> [enabled |-> TRUE, collect_for_monday |-> TRUE]]

\* No daily summary job has run.
NoSummary == [ran |-> FALSE, day |-> 0, selected |-> {}, listed |-> {}, sent |-> FALSE]

\* The roles in the order of script_mapping, with the scripts the supervisor
\* looks for and starts.
Roles == <<"data_collector", "technical_analyzer", "signal_generator", "notifier">>

RoleSet == Range(Roles)

\* check_processes has not returned a dict: status is None.
NoStatus == [r \in RoleSet |-> -1]

\* The supervisor has not polled.
SupervisorIdle ==
    /\ system_status = <<>>
    /\ m_pc = "idle"
    /\ m_k = 0
    /\ m_status = NoStatus
    /\ m_saved = "none"
    /\ m_attempts = [r \in RoleSet |-> 0]
    /\ m_failed = {}
    /\ m_prev_failed = {}
    /\ m_polls = 0

\* Every role runs, every script is there and no supervisor polls.
MonitorIdle ==
    /\ running = [r \in RoleSet |-> TRUE]
    /\ instances = [r \in RoleSet |-> 1]
    /\ script_exists = [r \in RoleSet |-> TRUE]
    /\ SupervisorIdle

\* A Monday noon under the default configuration; no clock is read.
ClockIdle ==
    /\ config = default_config
    /\ weekday = 0
    /\ today = 0
    /\ clock = HM(12, 0)
    /\ summary = NoSummary

\* InterruptibleMLProcessor.__init__ on a machine with no checkpoint file.
ProcessorInit ==
    /\ news = 0
    /\ store = [k \in 1..MaxNews |-> 0]
    /\ last_news_id = 0
    /\ proc_file = 0
    /\ last_processed_id = 0
    /\ sent_file = 0
    /\ pause_event = FALSE
    /\ shutdown_flag = FALSE
    /\ pc = "loop"
    /\ news_items = <<>>
    /\ results = <<>>
    /\ i = 0
    /\ j = 0
    /\ scored = {}
    /\ failed = {}
    /\ scoredRun = {}
    /\ prevRun = {}
    /\ rescored = {}
    /\ replaced = {}
    /\ since_pause = 0

\* The stream processor alone: no analysis row, no signal, and neither the
\* signal generation job nor the notifier job runs.
Init ==
    /\ ProcessorInit
    /\ technical_analysis = [s \in SymbolSet |-> <<>>]
    /\ sentiment_rows = [s \in SymbolSet |-> <<>>]
    /\ trading_signals = <<>>
    /\ GeneratorIdle
    /\ NotifierIdle
    /\ ClockIdle
    /\ MonitorIdle

\* The collector inserts a news row; rowids are assigned in increasing order.
AddNews ==
    /\ news < MaxNews
    /\ news' = news + 1
    /\ UNCHANGED <<store, last_news_id, proc_file, last_processed_id, sent_file,
                   pause_event, shutdown_flag, pc, news_items, results, i, j, hist>>
    /\ UNCHANGED signal_vars

(***************************************************************************)
(* InterruptibleMLProcessor.process                                        *)
(***************************************************************************)
\* while not self.shutdown_flag.is_set()
LoopCheck ==
    /\ pc = "loop"
    /\ pc' = IF shutdown_flag THEN "exit" ELSE "body"
    /\ UNCHANGED <<news, store, last_news_id, proc_file, last_processed_id,
                   sent_file, pause_event, shutdown_flag, news_items, results,
                   i, j, hist>>
    /\ UNCHANGED signal_vars

\* if self.pause_event.is_set(): sleep(5); continue
PausedSleep ==
    /\ pc = "body"
    /\ pause_event
    /\ pc' = "loop"
    /\ UNCHANGED <<news, store, last_news_id, proc_file, last_processed_id,
                   sent_file, pause_event, shutdown_flag, news_items, results,
                   i, j, hist>>
    /\ UNCHANGED signal_vars

\* The guard under which the loop body goes on to fetch.
may_fetch == ~pause_event

\* news_items = self.fetch_unprocessed_news(); nothing new: sleep(60); continue;
\* otherwise process_news_batch is entered with results = [] and i = 0.
Fetch ==
    /\ pc = "body"
    /\ may_fetch
    /\ LET items == fetch_unprocessed_news(last_news_id) IN
        IF items = <<>>
        THEN /\ pc' = "loop"
             /\ UNCHANGED <<news_items, results, i, j>>
        ELSE /\ pc' = "batch"
             /\ news_items' = items
             /\ results' = <<>>
             /\ i' = 0
             /\ j' = 0
    /\ UNCHANGED <<news, store, last_news_id, proc_file, last_processed_id,
                   sent_file, pause_event, shutdown_flag, hist>>
    /\ UNCHANGED signal_vars

\* fetch_unprocessed_news catches a store error and returns []
FetchFail ==
    /\ pc = "body"
    /\ may_fetch
    /\ pc' = "loop"
    /\ UNCHANGED <<news, store, last_news_id, proc_file, last_processed_id,
                   sent_file, pause_event, shutdown_flag, news_items, results,
                   i, j, hist>>
    /\ UNCHANGED signal_vars

(***************************************************************************)
(* FinBERTSentimentAnalyzer.process_news_batch                             *)
(***************************************************************************)
\* The for loop over the batch offsets has run out: return results.
BatchesDone ==
    /\ pc = "batch"
    /\ i >= Len(news_items)
    /\ pc' = "save"
    /\ UNCHANGED <<news, store, last_news_id, proc_file, last_processed_id,
                   sent_file, pause_event, shutdown_flag, news_items, results,
                   i, j, hist>>
    /\ UNCHANGED signal_vars

\* A loop that begins its next batch whatever has been requested.
may_begin_batch_always == TRUE

\* The guard under which the next batch is begun.
may_begin_batch == ~pause_event

\* if self.pause_event.is_set(): self._save_checkpoint(); return results
BatchPaused ==
    /\ pc = "batch"
    /\ i < Len(news_items)
    /\ ~may_begin_batch
    /\ sent_file' = save_checkpoint(last_processed_id)
    /\ pc' = "save"
    /\ UNCHANGED <<news, store, last_news_id, proc_file, last_processed_id,
                   pause_event, shutdown_flag, news_items, results, i, j, hist>>
    /\ UNCHANGED signal_vars

\* batch = news_items[i:i + batch_size]
BatchBegin ==
    /\ pc = "batch"
    /\ i < Len(news_items)
    /\ may_begin_batch
    /\ j' = i + 1
    /\ pc' = "item"
    /\ UNCHANGED <<news, store, last_news_id, proc_file, last_processed_id,
                   sent_file, pause_event, shutdown_flag, news_items, results,
                   i, hist>>
    /\ UNCHANGED signal_vars

\* The for loop over the batch moves to the next item or to the batch's end.
NextItem ==
    IF j >= batch_last(news_items, i)
    THEN pc' = "batchend" /\ j' = j
    ELSE pc' = "item" /\ j' = j + 1

\* An analyzer that scores every item it is handed.
is_new_always(id) == TRUE

\* if item['id'] > self.current_state['last_processed_id']
is_new(id) == id > last_processed_id

\* An analyzer that does not record the id of an item it has scored.
scored_checkpoint_kept(id) == last_processed_id

\* self.current_state['last_processed_id'] = item['id']
scored_checkpoint(id) == id

\* An analysis is counted when a pause or terminate request is pending.
counted == IF pause_event THEN since_pause + 1 ELSE since_pause

\* analyze_text returned a result: it is appended and the id recorded.
ScoreOk ==
    /\ pc = "item"
    /\ is_new(news_items[j])
    /\ results' = Append(results, news_items[j])
    /\ last_processed_id' = scored_checkpoint(news_items[j])
    /\ scored' = scored \cup {news_items[j]}
    /\ failed' = failed \ {news_items[j]}
    /\ scoredRun' = scoredRun \cup {news_items[j]}
    /\ rescored' = rescored \cup ({news_items[j]} \cap prevRun)
    /\ since_pause' = counted
    /\ NextItem
    /\ UNCHANGED <<news, store, last_news_id, proc_file, sent_file, pause_event,
                   shutdown_flag, news_items, i, prevRun, replaced>>
    /\ UNCHANGED signal_vars

\* analyze_text caught an error and returned None: the item is passed over.
ScoreFail ==
    /\ pc = "item"
    /\ is_new(news_items[j])
    /\ failed' = failed \cup {news_items[j]}
    /\ rescored' = rescored \cup ({news_items[j]} \cap prevRun)
    /\ since_pause' = counted
    /\ NextItem
    /\ UNCHANGED <<news, store, last_news_id, proc_file, last_processed_id,
                   sent_file, pause_event, shutdown_flag, news_items, results,
                   i, scored, scoredRun, prevRun, replaced>>
    /\ UNCHANGED signal_vars

\* The id is not above last_processed_id: the item is not analysed.
SkipItem ==
    /\ pc = "item"
    /\ ~is_new(news_items[j])
    /\ NextItem
    /\ UNCHANGED <<news, store, last_news_id, proc_file, last_processed_id,
                   sent_file, pause_event, shutdown_flag, news_items, results,
                   i, hist>>
    /\ UNCHANGED signal_vars

\* A batch end that leaves sentiment_checkpoint.json as it was.
batch_checkpoint_skipped == sent_file

\* What the end of a batch writes to sentiment_checkpoint.json.
batch_checkpoint == save_checkpoint(last_processed_id)

\* Checkpoint nach jedem Batch speichern: self._save_checkpoint()
BatchEnd ==
    /\ pc = "batchend"
    /\ sent_file' = batch_checkpoint
    /\ i' = i + BatchSize
    /\ pc' = "batch"
    /\ UNCHANGED <<news, store, last_news_id, proc_file, last_processed_id,
                   pause_event, shutdown_flag, news_items, results, j, hist>>
    /\ UNCHANGED signal_vars

(***************************************************************************)
(* InterruptibleMLProcessor.save_sentiment_results                         *)
(***************************************************************************)
\* if not results: return
SaveEmpty ==
    /\ pc = "save"
    /\ results = <<>>
    /\ pc' = "loop"
    /\ UNCHANGED <<news, store, last_news_id, proc_file, last_processed_id,
                   sent_file, pause_event, shutdown_flag, news_items, results,
                   i, j, hist>>
    /\ UNCHANGED signal_vars

\* A table without the primary key: every INSERT adds a row.
insert_plain(table, ids) ==
    [k \in DOMAIN table |-> IF k \in ids THEN table[k] + 1 ELSE table[k]]

\* news_id INTEGER PRIMARY KEY and INSERT OR REPLACE: the rows that have the
\* key are deleted and the new row is inserted.
insert_or_replace(table, ids) ==
    [k \in DOMAIN table |-> IF k \in ids THEN 1 ELSE table[k]]

\* INSERT OR REPLACE of every result, then conn.commit()
SaveCommit ==
    /\ pc = "save"
    /\ results # <<>>
    /\ store' = insert_or_replace(store, Range(results))
    /\ replaced' = replaced \cup (Range(results) \cap stored)
    /\ pc' = "ckpt"
    /\ UNCHANGED <<news, last_news_id, proc_file, last_processed_id, sent_file,
                   pause_event, shutdown_flag, news_items, results, i, j,
                   scored, failed, scoredRun, prevRun, rescored, since_pause>>
    /\ UNCHANGED signal_vars

\* The store raises before the commit: the error is logged, nothing is written.
SaveFail ==
    /\ pc = "save"
    /\ results # <<>>
    /\ pc' = "loop"
    /\ UNCHANGED <<news, store, last_news_id, proc_file, last_processed_id,
                   sent_file, pause_event, shutdown_flag, news_items, results,
                   i, j, hist>>
    /\ UNCHANGED signal_vars

\* last_news_id = max(...); last_run = ...; self._save_checkpoint()
SaveCheckpoint ==
    /\ pc = "ckpt"
    /\ last_news_id' = new_last_news_id(results)
    /\ proc_file' = save_checkpoint(new_last_news_id(results))
    /\ pc' = "loop"
    /\ UNCHANGED <<news, store, last_processed_id, sent_file, pause_event,
                   shutdown_flag, news_items, results, i, j, hist>>
    /\ UNCHANGED signal_vars

(***************************************************************************)
(* Requests: signal handlers and the public pause/resume/shutdown methods  *)
(***************************************************************************)
\* _handle_interrupt (SIGINT)
Interrupt ==
    /\ alive
    /\ pause_event' = TRUE
    /\ UNCHANGED <<news, store, last_news_id, proc_file, last_processed_id,
                   sent_file, shutdown_flag, pc, news_items, results, i, j, hist>>
    /\ UNCHANGED signal_vars

\* pause()
Pause ==
    /\ alive
    /\ pause_event' = TRUE
    /\ UNCHANGED <<news, store, last_news_id, proc_file, last_processed_id,
                   sent_file, shutdown_flag, pc, news_items, results, i, j, hist>>
    /\ UNCHANGED signal_vars

\* What resume() leaves in pause_event.
resumed_pause_event == FALSE

\* resume()
Resume ==
    /\ alive
    /\ pause_event' = resumed_pause_event
    /\ since_pause' = 0
    /\ UNCHANGED <<news, store, last_news_id, proc_file, last_processed_id,
                   sent_file, shutdown_flag, pc, news_items, results, i, j,
                   scored, failed, scoredRun, prevRun, rescored, replaced>>
    /\ UNCHANGED signal_vars

\* _handle_terminate (SIGTERM)
Terminate ==
    /\ alive
    /\ pause_event' = TRUE
    /\ shutdown_flag' = TRUE
    /\ UNCHANGED <<news, store, last_news_id, proc_file, last_processed_id,
                   sent_file, pc, news_items, results, i, j, hist>>
    /\ UNCHANGED signal_vars

\* shutdown(), called while the loop is still running
Shutdown ==
    /\ alive
    /\ pc # "exit"
    /\ pause_event' = TRUE
    /\ shutdown_flag' = TRUE
    /\ proc_file' = save_checkpoint(last_news_id)
    /\ UNCHANGED <<news, store, last_news_id, last_processed_id, sent_file, pc,
                   news_items, results, i, j, hist>>
    /\ UNCHANGED signal_vars

(***************************************************************************)
(* The end of a process and the start of the next one                      *)
(***************************************************************************)
\* The memory of a process that is gone.
Gone ==
    /\ pc' = "down"
    /\ last_news_id' = 0
    /\ last_processed_id' = 0
    /\ pause_event' = FALSE
    /\ shutdown_flag' = FALSE
    /\ news_items' = <<>>
    /\ results' = <<>>
    /\ i' = 0
    /\ j' = 0
    /\ scoredRun' = {}
    /\ rescored' = {}
    /\ since_pause' = 0

\* run_ml_processor.main: process() has returned; finally: processor.shutdown()
Exit ==
    /\ pc = "exit"
    /\ proc_file' = save_checkpoint(last_news_id)
    /\ Gone
    /\ prevRun' = {}
    /\ UNCHANGED <<news, store, sent_file, scored, failed, replaced>>
    /\ UNCHANGED signal_vars

\* The process dies at any point; only the store and the two files survive.
Crash ==
    /\ alive
    /\ Gone
    /\ prevRun' = scoredRun
    /\ UNCHANGED <<news, store, proc_file, sent_file, scored, failed, replaced>>
    /\ UNCHANGED signal_vars

\* InterruptibleMLProcessor.__init__: both checkpoints are loaded.
Restart ==
    /\ pc = "down"
    /\ last_news_id' = proc_load_checkpoint(proc_file)
    /\ last_processed_id' = sent_load_checkpoint(sent_file)
    /\ pc' = "loop"
    /\ UNCHANGED <<news, store, proc_file, sent_file, pause_event, shutdown_flag,
                   news_items, results, i, j, hist>>
    /\ UNCHANGED signal_vars

Next ==
    \/ AddNews
    \/ LoopCheck
    \/ PausedSleep
    \/ Fetch
    \/ FetchFail
    \/ BatchesDone
    \/ BatchPaused
    \/ BatchBegin
    \/ ScoreOk
    \/ ScoreFail
    \/ SkipItem
    \/ BatchEnd
    \/ SaveEmpty
    \/ SaveCommit
    \/ SaveFail
    \/ SaveCheckpoint
    \/ Interrupt
    \/ Pause
    \/ Resume
    \/ Terminate
    \/ Shutdown
    \/ Exit
    \/ Crash
    \/ Restart

Spec == Init /\ [][Next]_vars

(***************************************************************************)
(* Checkpoint files that cannot be read.  _save_checkpoint rewrites the    *)
(* file in place (open(..., 'w') then json.dump), so a file can be left    *)
(* truncated or damaged; the next process finds it at startup.             *)
(***************************************************************************)
\* processor_checkpoint.json is left in a state json.load raises on.
CorruptProcessorCheckpoint ==
    /\ pc = "down"
    /\ proc_file # Unreadable
    /\ proc_file' = Unreadable
    /\ UNCHANGED <<news, store, last_news_id, last_processed_id, sent_file,
                   pause_event, shutdown_flag, pc, news_items, results, i, j, hist>>
    /\ UNCHANGED signal_vars

\* sentiment_checkpoint.json is left in a state json.load raises on.
CorruptAnalyzerCheckpoint ==
    /\ pc = "down"
    /\ sent_file # Unreadable
    /\ sent_file' = Unreadable
    /\ UNCHANGED <<news, store, last_news_id, proc_file, last_processed_id,
                   pause_event, shutdown_flag, pc, news_items, results, i, j, hist>>
    /\ UNCHANGED signal_vars

\* Runs, crashes and restarts of a processor that receives no pause or
\* terminate request, with the damage to its files.
CorruptNext ==
    \/ AddNews
    \/ LoopCheck
    \/ Fetch
    \/ FetchFail
    \/ BatchesDone
    \/ BatchBegin
    \/ ScoreOk
    \/ ScoreFail
    \/ SkipItem
    \/ BatchEnd
    \/ SaveEmpty
    \/ SaveCommit
    \/ SaveFail
    \/ SaveCheckpoint
    \/ Crash
    \/ Restart
    \/ CorruptProcessorCheckpoint
    \/ CorruptAnalyzerCheckpoint

\* The processor in an environment that can damage its checkpoint files.
CorruptSpec == Init /\ [][CorruptNext]_vars

(***************************************************************************)
(* SignalGenerator (src/signal_generator.py).  A strength, a score or a    *)
(* confidence is a number of One-ths: One is divisible by 100 and by every *)
(* row count up to the LIMIT, and the scores of the rows below are         *)
(* multiples of 5/100, so that the averages and the weighted sums of the   *)
(* code are computed without rounding.                                     *)
(***************************************************************************)
\* The value 1.0.
One == 60000

\* n/100 as a strength.
Pct(n) == (n * One) \div 100

\* SignalGenerator(db_path, confidence_threshold=0.7)
confidence_threshold == Pct(70)

\* ORDER BY sr.timestamp DESC LIMIT 5
SentimentLimit == 5

\* A technical_analysis row: overall_signal and signal_strength.
TechRow(sig, pct) == [overall_signal |-> sig, signal_strength |-> Pct(pct)]

\* A sentiment_results row: the three class scores.
SentRow(neg, neu, pos) ==
    [negative_score |-> Pct(neg), neutral_score |-> Pct(neu),
     positive_score |-> Pct(pos)]

\* The technical_analysis rows a symbol can have: none, one, or a newer row
\* above an older one.  A directional row has the strength k/5 of
\* technical_analyzer.py or 0.9, a NEUTRAL row its 0.5.
TechCases ==
    {<<>>}
    \cup {<<TechRow(sig, pct)>> : sig \in {"BUY", "SELL"}, pct \in {40, 60, 80, 90, 100}}
    \cup {<<TechRow("NEUTRAL", 50)>>}
    \cup {<<TechRow("BUY", 80), TechRow("SELL", 40)>>}

\* The sentiment rows a symbol can have: none, one row, or two rows whose
\* averages tie between negative and positive.
SentCases ==
    {<<>>,
     <<SentRow(5, 5, 90)>>,
     <<SentRow(20, 20, 60)>>,
     <<SentRow(60, 20, 20)>>,
     <<SentRow(75, 15, 10)>>,
     <<SentRow(5, 90, 5)>>,
     <<SentRow(90, 5, 5), SentRow(5, 5, 90)>>}

\* A query that answers with a neutral row when the symbol has none.
get_latest_or_neutral(symbol) ==
    IF technical_analysis[symbol] = <<>>
    THEN <<TechRow("NEUTRAL", 50)>>
    ELSE <<Head(technical_analysis[symbol])>>

\* SELECT ... FROM technical_analysis WHERE symbol = ? ORDER BY timestamp DESC
\* LIMIT 1; None (the empty sequence) when there is no row.
get_latest_technical_analysis(symbol) ==
    IF technical_analysis[symbol] = <<>>
    THEN <<>>
    ELSE <<Head(technical_analysis[symbol])>>

RECURSIVE SumOf(_, _)
\* sum(row[column] for row in rows)
SumOf(rows, column) ==
    IF rows = <<>> THEN 0 ELSE Head(rows)[column] + SumOf(Tail(rows), column)

\* max(scores, key=scores.get): the first of negative, neutral, positive that
\* has the highest score.
dominant_of(scores) ==
    IF scores.negative >= scores.neutral /\ scores.negative >= scores.positive
    THEN "negative"
    ELSE IF scores.neutral >= scores.positive THEN "neutral" ELSE "positive"

\* _get_latest_sentiment: the averages of the three scores over the most recent
\* rows, the dominant class and its average; None when there is no row.
get_latest_sentiment(symbol) ==
    LET all == sentiment_rows[symbol]
        rows == SubSeq(all, 1, MinOf(SentimentLimit, Len(all)))
    IN  IF rows = <<>>
        THEN <<>>
        ELSE LET scores ==
                     [negative |-> SumOf(rows, "negative_score") \div Len(rows),
                      neutral |-> SumOf(rows, "neutral_score") \div Len(rows),
                      positive |-> SumOf(rows, "positive_score") \div Len(rows)]
                 dominant == dominant_of(scores)
             IN  <<[dominant_sentiment |-> dominant,
                    confidence |-> scores[dominant]]>>

\* _map_sentiment_to_signal
map_sentiment_to_signal(sentiment) ==
    IF sentiment = "positive" THEN "BUY"
    ELSE IF sentiment = "negative" THEN "SELL"
    ELSE "NEUTRAL"

MaxOf2(a, b) == IF a >= b THEN a ELSE b

\* A fusion that gives the technical signal and the mean in every case.
combine_mean(tech_signal, tech_strength, sent_signal, sent_strength) ==
    [signal |-> tech_signal, strength |-> (tech_strength + sent_strength) \div 2]

\* A fusion in which the technical signal wins a conflict.
combine_technical_first(tech_signal, tech_strength, sent_signal, sent_strength) ==
    [signal |-> IF tech_signal # "NEUTRAL" THEN tech_signal ELSE sent_signal,
     strength |-> MaxOf2(tech_strength, sent_strength)]

\* Kombiniertes Signal berechnen: the five branches of generate_signals.
combine(tech_signal, tech_strength, sent_signal, sent_strength) ==
    IF tech_signal = sent_signal /\ tech_signal # "NEUTRAL"
    THEN [signal |-> tech_signal,
          strength |-> (tech_strength + sent_strength) \div 2]
    ELSE IF tech_signal # "NEUTRAL" /\ sent_signal # "NEUTRAL"
            /\ tech_signal # sent_signal
    THEN [signal |-> "NEUTRAL", strength |-> MaxOf2(tech_strength, sent_strength)]
    ELSE IF tech_signal # "NEUTRAL"
    THEN [signal |-> tech_signal,
          strength |-> (tech_strength * 7 + sent_strength * 3) \div 10]
    ELSE IF sent_signal # "NEUTRAL"
    THEN [signal |-> sent_signal,
          strength |-> (sent_strength * 6 + tech_strength * 4) \div 10]
    ELSE [signal |-> "NEUTRAL",
          strength |-> (tech_strength + sent_strength) \div 2]

\* A gate that lets every fused result through.
passes_always(strength) == TRUE

\* A gate that drops a result that is equal to the threshold.
passes_above(strength) == strength > confidence_threshold

\* if combined_strength >= self.confidence_threshold
passes_threshold(strength) == strength >= confidence_threshold

RECURSIVE join_und(_)
\* " und ".join(reasons)
join_und(reasons) ==
    IF Len(reasons) <= 1
    THEN reasons
    ELSE <<Head(reasons), " und ">> \o join_und(Tail(reasons))

\* The clauses of a reason (the sentiment clause ends with the title of the
\* latest news, which the model leaves out).
TechnicalClauses ==
    {"Technische Indikatoren zeigen einen Aufwaertstrend",
     "Technische Indikatoren zeigen einen Abwaertstrend"}

SentimentClauses == {"Positive Nachrichten: ", "Negative Nachrichten: "}

\* A reason that has the sentiment clause whatever the sentiment signal is.
generate_reason_always(tech_signal, sent_signal, sentiment) ==
    join_und(<<"Technische Indikatoren zeigen einen Aufwaertstrend",
               "Positive Nachrichten: ">>)

\* _generate_reason
generate_reason(tech_signal, sent_signal, sentiment) ==
    LET technical_clause ==
            IF tech_signal = "BUY"
            THEN <<"Technische Indikatoren zeigen einen Aufwaertstrend">>
            ELSE IF tech_signal = "SELL"
            THEN <<"Technische Indikatoren zeigen einen Abwaertstrend">>
            ELSE <<>>
        sentiment_clause ==
            IF sentiment = <<>> THEN <<>>
            ELSE IF sent_signal = "BUY" THEN <<"Positive Nachrichten: ">>
            ELSE IF sent_signal = "SELL" THEN <<"Negative Nachrichten: ">>
            ELSE <<>>
    IN  join_und(technical_clause \o sentiment_clause)

\* A default that gives the missing sentiment no weight.
sent_strength_zero(sentiment) ==
    IF sentiment # <<>> THEN sentiment[1].confidence ELSE 0

\* Sentiment-basiertes Signal (falls verfuegbar), else NEUTRAL
sent_signal_of(sentiment) ==
    IF sentiment # <<>>
    THEN map_sentiment_to_signal(sentiment[1].dominant_sentiment)
    ELSE "NEUTRAL"

\* ... and its strength, else 0.5
sent_strength_of(sentiment) ==
    IF sentiment # <<>> THEN sentiment[1].confidence ELSE Pct(50)

\* What generate_signals computes for a symbol from the technical row and the
\* sentiment its two queries returned.
fused(technical, sentiment) ==
    LET tech_signal == technical[1].overall_signal
        tech_strength == technical[1].signal_strength
        sent_signal == sent_signal_of(sentiment)
        sent_strength == sent_strength_of(sentiment)
        combined == combine(tech_signal, tech_strength, sent_signal, sent_strength)
    IN  [kind |-> "fused",
         tech_signal |-> tech_signal, tech_strength |-> tech_strength,
         sent_signal |-> sent_signal, sent_strength |-> sent_strength,
         combined_signal |-> combined.signal,
         combined_strength |-> combined.strength,
         emitted |-> passes_threshold(combined.strength),
         reason |-> generate_reason(tech_signal, sent_signal, sentiment)]

\* The signal dict that generate_signals appends.
signal_of(symbol, o) ==
    [symbol |-> symbol,
     timestamp |-> [day |-> today, weekday |-> weekday],
     signal_type |-> o.combined_signal,
     confidence |-> o.combined_strength,
     technical_signal |-> o.tech_signal, sentiment_signal |-> o.sent_signal,
     reason |-> o.reason]

\* The symbol of the current iteration of for symbol in symbols.
current_symbol == Symbols[f_k]

\* schedule.every(30).minutes.do(generate_signals): signals = []
GenerateStart ==
    /\ f_pc = "idle"
    /\ f_runs < MaxRuns
    /\ f_runs' = f_runs + 1
    /\ f_pc' = "symbol"
    /\ f_k' = 1
    /\ f_signals' = <<>>
    /\ f_last' = [s \in SymbolSet |->
                    IF f_outcome[s].kind # "none" THEN f_outcome[s] ELSE f_last[s]]
    /\ f_outcome' = [s \in SymbolSet |-> NoOutcome]
    /\ UNCHANGED <<technical_analysis, sentiment_rows, trading_signals>>
    /\ UNCHANGED <<proc_vars, gate_vars, outer_vars>>

\* The iteration's outcome is recorded and the loop moves on.
NextSymbol(o) ==
    /\ f_outcome' = [f_outcome EXCEPT ![current_symbol] = o]
    /\ f_signals' = IF o.emitted
                    THEN Append(f_signals, signal_of(current_symbol, o))
                    ELSE f_signals
    /\ f_k' = f_k + 1
    /\ UNCHANGED <<f_pc, f_last, f_runs, technical_analysis, sentiment_rows,
                   trading_signals>>
    /\ UNCHANGED <<proc_vars, gate_vars, outer_vars>>

\* No signal for the symbol in this invocation.
Skipped == [NoOutcome EXCEPT !.kind = "skipped"]

\* if not technical: continue (the symbol has no technical_analysis row)
SkipSymbol ==
    /\ f_pc = "symbol"
    /\ f_k <= Len(Symbols)
    /\ get_latest_technical_analysis(current_symbol) = <<>>
    /\ NextSymbol(Skipped)

\* _get_latest_technical_analysis catches a store error and returns None.
TechnicalReadFail ==
    /\ f_pc = "symbol"
    /\ f_k <= Len(Symbols)
    /\ NextSymbol(Skipped)

\* Both queries return; the result is appended if it passes the threshold.
FuseSymbol ==
    /\ f_pc = "symbol"
    /\ f_k <= Len(Symbols)
    /\ get_latest_technical_analysis(current_symbol) # <<>>
    /\ NextSymbol(fused(get_latest_technical_analysis(current_symbol),
                        get_latest_sentiment(current_symbol)))

\* _get_latest_sentiment catches a store error and returns None: the symbol
\* is fused as if it had no sentiment row.
SentimentReadFail ==
    /\ f_pc = "symbol"
    /\ f_k <= Len(Symbols)
    /\ get_latest_technical_analysis(current_symbol) # <<>>
    /\ NextSymbol(fused(get_latest_technical_analysis(current_symbol), <<>>))

\* return signals; generator.save_signals(signals) is entered.
GenerateDone ==
    /\ f_pc = "symbol"
    /\ f_k > Len(Symbols)
    /\ f_pc' = "save"
    /\ UNCHANGED <<technical_analysis, sentiment_rows, trading_signals, f_k,
                   f_signals, f_outcome, f_last, f_runs>>
    /\ UNCHANGED <<proc_vars, gate_vars, outer_vars>>

\* save_signals: if not signals: return
SaveNoSignals ==
    /\ f_pc = "save"
    /\ f_signals = <<>>
    /\ f_pc' = "idle"
    /\ UNCHANGED <<technical_analysis, sentiment_rows, trading_signals, f_k,
                   f_signals, f_outcome, f_last, f_runs>>
    /\ UNCHANGED <<proc_vars, gate_vars, outer_vars>>

\* The row INSERT INTO trading_signals makes of a signal: notified DEFAULT 0,
\* verified DEFAULT 0, outcome NULL.
inserted_row(signal) ==
    [signal |-> signal, notified |-> FALSE, verified |-> FALSE, outcome |-> "NULL"]

\* save_signals: one INSERT for each signal, then conn.commit()
SaveSignals ==
    /\ f_pc = "save"
    /\ f_signals # <<>>
    /\ trading_signals' =
           trading_signals \o [n \in 1..Len(f_signals) |-> inserted_row(f_signals[n])]
    /\ f_pc' = "idle"
    /\ UNCHANGED <<technical_analysis, sentiment_rows, f_k, f_signals,
                   f_outcome, f_last, f_runs>>
    /\ UNCHANGED <<proc_vars, gate_vars, outer_vars>>

\* save_signals catches a store error before the commit: nothing is written.
SaveSignalsFail ==
    /\ f_pc = "save"
    /\ f_signals # <<>>
    /\ f_pc' = "idle"
    /\ UNCHANGED <<technical_analysis, sentiment_rows, trading_signals, f_k,
                   f_signals, f_outcome, f_last, f_runs>>
    /\ UNCHANGED <<proc_vars, gate_vars, outer_vars>>

\* The rows of the symbols after the first: fewer cases.
OtherTechCases == {<<>>, <<TechRow("SELL", 80)>>, <<TechRow("NEUTRAL", 50)>>}

OtherSentCases == {<<>>, <<SentRow(75, 15, 10)>>}

\* The tables in which the first symbol has any of the cases and the symbols
\* after it one of the fewer cases.
InputTables(cases, other_cases) ==
    {t \in [SymbolSet -> cases] :
        \A n \in 2..Len(Symbols) : t[Symbols[n]] \in other_cases}

\* The rows are those the analyzers have written before the invocations
\* observed; the processor and the notifier do not run.
FusionInit ==
    /\ ProcessorInit
    /\ technical_analysis \in InputTables(TechCases, OtherTechCases)
    /\ sentiment_rows \in InputTables(SentCases, OtherSentCases)
    /\ trading_signals = <<>>
    /\ GeneratorIdle
    /\ NotifierIdle
    /\ ClockIdle
    /\ MonitorIdle

FusionNext ==
    \/ GenerateStart
    \/ SkipSymbol
    \/ TechnicalReadFail
    \/ FuseSymbol
    \/ SentimentReadFail
    \/ GenerateDone
    \/ SaveNoSignals
    \/ SaveSignals
    \/ SaveSignalsFail

\* Invocations of the signal generation job over unchanging rows.
FusionSpec == FusionInit /\ [][FusionNext]_vars

(***************************************************************************)
(* The notifier job: send_notifications and send_daily_summary             *)
(* (src/run_notifier.py) with TelegramNotifier (src/notification_system.py)*)
(* and the notified column of trading_signals.  A time of day is a number  *)
(* of minutes since midnight; datetime.now() is read once by a call.       *)
(***************************************************************************)
RECURSIVE unnotified_from(_)
\* The ids of the rows with notified = 0 among the first n, highest first.
unnotified_from(n) ==
    IF n = 0 THEN <<>>
    ELSE IF trading_signals[n].notified
    THEN unnotified_from(n - 1)
    ELSE <<n>> \o unnotified_from(n - 1)

\* A selection that ignores the notified column.
get_every_signal == [k \in 1..Len(trading_signals) |-> Len(trading_signals) + 1 - k]

\* SELECT ... FROM trading_signals WHERE notified = 0 ORDER BY timestamp DESC
get_unnotified_signals == unnotified_from(Len(trading_signals))

\* The signal of the current iteration of for signal in signals.
current_signal == g_signals[g_k]

\* schedule.every(5).minutes.do(send_notifications): the unnotified signals
\* are fetched; if not signals: return.
NotifyStart ==
    /\ g_pc = "idle"
    /\ g_signals' = get_unnotified_signals
    /\ IF get_unnotified_signals = <<>>
       THEN g_pc' = "idle" /\ g_k' = 0
       ELSE g_pc' = "send" /\ g_k' = 1
    /\ g_failed' = {}
    /\ overlapped' = (overlapped \/ g2_pc # "idle")
    /\ UNCHANGED <<g_result, delivered, trading_signals>>
    /\ UNCHANGED second_vars
    /\ UNCHANGED <<proc_vars, fusion_vars, outer_vars>>

\* get_unnotified_signals catches a store error and returns []: the job
\* returns without a call of send_signal.
NotifyReadFail ==
    /\ g_pc = "idle"
    /\ g_signals' = <<>>
    /\ g_k' = 0
    /\ UNCHANGED <<g_pc, g_result, delivered, g_failed, trading_signals>>
    /\ UNCHANGED <<second_vars, overlapped>>
    /\ UNCHANGED <<proc_vars, fusion_vars, outer_vars>>

\* TelegramNotifier._is_in_quiet_hours
is_in_quiet_hours ==
    IF ~config.quiet_hours.enabled
    THEN FALSE
    ELSE LET now == clock
             start == config.quiet_hours.start
             end == config.quiet_hours.end
         IN  IF start > end
             THEN now >= start \/ now <= end
             ELSE start <= now /\ now <= end

\* TelegramNotifier._is_weekend
is_weekend ==
    IF ~config.weekends.enabled
    THEN FALSE
    ELSE weekday >= 5

\* send_signal returns False before anything is sent:
\* if self._is_in_quiet_hours(), or if is_weekend and not collect_for_monday
suppressed ==
    \/ is_in_quiet_hours
    \/ is_weekend /\ ~config.weekends.collect_for_monday

SendSuppressed ==
    /\ g_pc = "send"
    /\ suppressed
    /\ g_result' = FALSE
    /\ g_pc' = "sent"
    /\ UNCHANGED <<g_signals, g_k, delivered, g_failed, trading_signals>>
    /\ UNCHANGED <<second_vars, overlapped>>
    /\ UNCHANGED <<proc_vars, fusion_vars, outer_vars>>

\* bot.send_message returns: the message is delivered, send_signal returns True.
SendOk ==
    /\ g_pc = "send"
    /\ ~suppressed
    /\ delivered' = delivered \cup {current_signal}
    /\ g_result' = TRUE
    /\ g_pc' = "sent"
    /\ UNCHANGED <<g_signals, g_k, g_failed, trading_signals>>
    /\ UNCHANGED <<second_vars, overlapped>>
    /\ UNCHANGED <<proc_vars, fusion_vars, outer_vars>>

\* bot.send_message raises TelegramError: send_signal returns False.
SendFail ==
    /\ g_pc = "send"
    /\ ~suppressed
    /\ g_result' = FALSE
    /\ g_pc' = "sent"
    /\ g_failed' = g_failed \cup {current_signal}
    /\ UNCHANGED <<g_signals, g_k, delivered, trading_signals>>
    /\ UNCHANGED <<second_vars, overlapped>>
    /\ UNCHANGED <<proc_vars, fusion_vars, outer_vars>>

\* A job that marks whatever send_signal returned.
send_assumed(result) == TRUE

\* if notifier.send_signal(signal):
send_confirmed(result) == result

\* A loop that a send_signal returning False ends.
NextSignalOrStop ==
    IF g_k >= Len(g_signals) \/ ~g_result
    THEN g_pc' = "idle" /\ g_k' = g_k
    ELSE g_pc' = "send" /\ g_k' = g_k + 1

\* The for loop over the signals moves to the next signal or the job returns.
NextSignal ==
    IF g_k >= Len(g_signals)
    THEN g_pc' = "idle" /\ g_k' = g_k
    ELSE g_pc' = "send" /\ g_k' = g_k + 1

\* UPDATE trading_signals SET notified = 1 WHERE id = ?
mark_as_notified(signal_id) ==
    [trading_signals EXCEPT ![signal_id].notified = TRUE]

\* generator.mark_as_notified(signal['id']) commits.
MarkNotified ==
    /\ g_pc = "sent"
    /\ send_confirmed(g_result)
    /\ trading_signals' = mark_as_notified(current_signal)
    /\ NextSignal
    /\ UNCHANGED <<g_signals, g_result, delivered, g_failed>>
    /\ UNCHANGED <<second_vars, overlapped>>
    /\ UNCHANGED <<proc_vars, fusion_vars, outer_vars>>

\* mark_as_notified catches a store error and returns False: the row is as it was.
MarkFail ==
    /\ g_pc = "sent"
    /\ send_confirmed(g_result)
    /\ NextSignal
    /\ UNCHANGED <<g_signals, g_result, delivered, g_failed, trading_signals>>
    /\ UNCHANGED <<second_vars, overlapped>>
    /\ UNCHANGED <<proc_vars, fusion_vars, outer_vars>>

\* send_signal returned False: the signal is left unnotified.
NotMarked ==
    /\ g_pc = "sent"
    /\ ~send_confirmed(g_result)
    /\ NextSignal
    /\ UNCHANGED <<g_signals, g_result, delivered, g_failed, trading_signals>>
    /\ UNCHANGED <<second_vars, overlapped>>
    /\ UNCHANGED <<proc_vars, fusion_vars, outer_vars>>

\* The notifier process dies in the middle of a job and is started again:
\* its list is lost, trading_signals and the messages sent are not.
NotifierCrash ==
    /\ g_pc # "idle"
    /\ g_pc' = "idle"
    /\ g_signals' = <<>>
    /\ g_k' = 0
    /\ g_result' = FALSE
    /\ UNCHANGED <<delivered, g_failed, trading_signals>>
    /\ UNCHANGED <<second_vars, overlapped>>
    /\ UNCHANGED <<proc_vars, fusion_vars, outer_vars>>

\* schedule.every().day.at("18:00").do(send_daily_summary)
summary_time == HM(18, 0)

\* SELECT ... FROM trading_signals WHERE timestamp LIKE '<today>%'
todays_signals ==
    {n \in 1..Len(trading_signals) : trading_signals[n].signal.timestamp.day = today}

\* The signals a summary message has a line for: buy_signals and sell_signals
\* are written out, neutral_signals is computed and not used.
summary_lines(signals) ==
    {n \in signals : trading_signals[n].signal.signal_type \in {"BUY", "SELL"}}

\* A summary that has a line for every signal it is given.
summary_lines_all(signals) == signals

\* The daily summary job, run once a day by the scheduler loop between two
\* notification jobs; sent is FALSE when there is no signal of today (nothing is sent) and
\* when bot.send_message raises TelegramError.
DailySummary ==
    /\ g_pc = "idle"
    /\ clock >= summary_time
    /\ summary.ran => summary.day # today
    /\ \E ok \in BOOLEAN :
           summary' = [ran |-> TRUE, day |-> today, selected |-> todays_signals,
                       listed |-> summary_lines(todays_signals),
                       sent |-> ok /\ todays_signals # {}]
    /\ UNCHANGED <<trading_signals, clock_vars>>
    /\ UNCHANGED <<proc_vars, fusion_vars, gate_vars, monitor_vars>>

\* The SELECT of the daily summary job raises: except Exception logs it.
DailySummaryReadFail ==
    /\ g_pc = "idle"
    /\ clock >= summary_time
    /\ summary.ran => summary.day # today
    /\ summary' = [ran |-> TRUE, day |-> today, selected |-> {}, listed |-> {},
                   sent |-> FALSE]
    /\ UNCHANGED <<trading_signals, clock_vars>>
    /\ UNCHANGED <<proc_vars, fusion_vars, gate_vars, monitor_vars>>

\* A verification that also puts the signal back among the unnotified ones.
verify_signal_renotify(signal_id, outcome) ==
    [trading_signals EXCEPT ![signal_id].verified = TRUE,
                            ![signal_id].outcome = outcome,
                            ![signal_id].notified = FALSE]

\* UPDATE trading_signals SET verified = 1, outcome = ? WHERE id = ?
verify_signal(signal_id, outcome) ==
    [trading_signals EXCEPT ![signal_id].verified = TRUE,
                            ![signal_id].outcome = outcome]

\* SignalGenerator.verify_signal, called by an outcome evaluation outside
\* this repository, at any time. The outcome is a text that only the
\* dashboard reads back (SUCCESS is counted, any other text is not): one
\* value stands for it.
VerifySignal ==
    /\ \E signal_id \in 1..Len(trading_signals), outcome \in {"SUCCESS"} :
           trading_signals' = verify_signal(signal_id, outcome)
    /\ UNCHANGED <<summary, clock_vars>>
    /\ UNCHANGED <<proc_vars, fusion_vars, gate_vars, monitor_vars>>

\* The times of day at which the clock is read.
TimePoints ==
    {HM(6, 0), HM(7, 30), HM(8, 0), HM(18, 0), HM(21, 59), HM(22, 0), HM(23, 0)}

\* No job is running: the jobs are short beside the five minutes between them.
BetweenJobs == f_pc = "idle" /\ g_pc = "idle" /\ g2_pc = "idle"

\* Time passes within the day.
Tick ==
    /\ BetweenJobs
    /\ \E later \in TimePoints : later > clock /\ clock' = later
    /\ UNCHANGED <<config, weekday, today>>
    /\ UNCHANGED <<trading_signals, summary>>
    /\ UNCHANGED <<proc_vars, fusion_vars, gate_vars, monitor_vars>>

\* Midnight passes.
NextDay ==
    /\ BetweenJobs
    /\ today < MaxDays
    /\ today' = today + 1
    /\ weekday' = (weekday + 1) % 7
    /\ clock' \in TimePoints
    /\ UNCHANGED config
    /\ UNCHANGED <<trading_signals, summary>>
    /\ UNCHANGED <<proc_vars, fusion_vars, gate_vars, monitor_vars>>

\* The first symbol has a technical BUY(0.8) and a positive sentiment (fused
\* to BUY) or a negative one (fused to NEUTRAL), the symbols after it have no
\* technical row: every invocation of the signal generation job adds one signal.
GateTables ==
    /\ technical_analysis =
           [s \in SymbolSet |-> IF s = Symbols[1] THEN <<TechRow("BUY", 80)>> ELSE <<>>]
    /\ \E first \in {<<SentRow(5, 5, 90)>>, <<SentRow(90, 5, 5)>>} :
           sentiment_rows =
               [s \in SymbolSet |-> IF s = Symbols[1] THEN first ELSE <<>>]

\* The notifier is started on a Monday morning with the default configuration.
GateInit ==
    /\ ProcessorInit
    /\ GateTables
    /\ trading_signals = <<>>
    /\ GeneratorIdle
    /\ NotifierIdle
    /\ config = default_config
    /\ weekday = 0
    /\ today = 0
    /\ clock = HM(6, 0)
    /\ summary = NoSummary
    /\ MonitorIdle

GateNext ==
    \/ GenerateStart
    \/ FuseSymbol
    \/ SkipSymbol
    \/ GenerateDone
    \/ SaveSignals
    \/ NotifyStart
    \/ NotifyReadFail
    \/ SendSuppressed
    \/ SendOk
    \/ SendFail
    \/ MarkNotified
    \/ MarkFail
    \/ NotMarked
    \/ NotifierCrash
    \/ DailySummary
    \/ DailySummaryReadFail
    \/ VerifySignal
    \/ Tick

\* The jobs of the notifier on one day, beside a signal generation job that
\* adds signals and an outcome evaluation, with every failure the code handles.
GateSpec == GateInit /\ [][GateNext]_vars

\* The quiet hours of the default configuration, none, and a window within a day.
QuietCases ==
    {default_config.quiet_hours,
     [enabled |-> FALSE, start |-> HM(22, 0), end |-> HM(7, 30)],
     [enabled |-> TRUE, start |-> HM(7, 30), end |-> HM(22, 0)]}

\* The weekend policy of the default configuration, one that drops, and none.
WeekendCases ==
    {default_config.weekends,
     [enabled |-> TRUE, collect_for_monday |-> FALSE],
     [enabled |-> FALSE, collect_for_monday |-> TRUE]}

\* The notification_config.json files the notifier is started with.
ConfigCases == {[quiet_hours |-> q, weekends |-> w] : q \in QuietCases, w \in WeekendCases}

\* The first day is a Friday or a Saturday.
FirstWeekdays == {4, 5}

\* The configuration is read once, when the notifier starts.
PolicyInit ==
    /\ ProcessorInit
    /\ GateTables
    /\ trading_signals = <<>>
    /\ GeneratorIdle
    /\ NotifierIdle
    /\ config \in ConfigCases
    /\ weekday \in FirstWeekdays
    /\ today = 0
    /\ clock = HM(6, 0)
    /\ summary = NoSummary
    /\ MonitorIdle

PolicyNext ==
    \/ GenerateStart
    \/ FuseSymbol
    \/ SkipSymbol
    \/ GenerateDone
    \/ SaveSignals
    \/ NotifyStart
    \/ SendSuppressed
    \/ SendOk
    \/ SendFail
    \/ MarkNotified
    \/ NotMarked
    \/ DailySummary
    \/ Tick
    \/ NextDay

\* The jobs of the notifier over several days under a configuration, with no
\* failure but that of the transport.
PolicySpec == PolicyInit /\ [][PolicyNext]_vars

(***************************************************************************)
(* SystemMonitor (src/system_monitor.py): run_monitoring, made of          *)
(* save_status and check_and_restart_processes, over the process table.    *)
(***************************************************************************)
\* What neither the supervisor reads nor writes in this model.
pipeline_vars == <<proc_vars, fusion_vars, trading_signals, gate_vars, clock_vars,
                   summary>>

\* The role of the current iteration of for status_key, script in script_mapping.items().
current_role == Roles[m_k]

\* check_processes: status[key_running] = 1 if running else 0, for every role
check_processes == [r \in RoleSet |-> IF running[r] THEN 1 ELSE 0]

\* schedule.every(5).minutes.do(monitor.run_monitoring)
PollStart ==
    /\ m_pc = "idle"
    /\ m_polls < MaxPolls
    /\ m_polls' = m_polls + 1
    /\ m_pc' = "save"
    /\ m_k' = 0
    /\ m_status' = NoStatus
    /\ m_saved' = "none"
    /\ m_attempts' = [r \in RoleSet |-> 0]
    /\ m_prev_failed' = m_failed
    /\ m_failed' = {}
    /\ UNCHANGED <<running, instances, script_exists, system_status>>
    /\ UNCHANGED pipeline_vars

\* check_system_resources: a dict psutil and os.path.getsize may give
\* (percentages and a size in bytes).
ResourceCases ==
    {[cpu_usage |-> 10, memory_usage |-> 40, disk_usage |-> 50, db_size |-> 4096]}

\* The row save_status inserts: **resources, **processes (the timestamp is not
\* read by anything here).
snapshot(resources, processes) ==
    [cpu_usage |-> resources.cpu_usage, memory_usage |-> resources.memory_usage,
     disk_usage |-> resources.disk_usage, db_size |-> resources.db_size,
     data_collector_running |-> processes["data_collector"],
     technical_analyzer_running |-> processes["technical_analyzer"],
     signal_generator_running |-> processes["signal_generator"],
     notifier_running |-> processes["notifier"]]

\* save_status: both checks return a dict, the INSERT commits.
SaveStatus ==
    /\ m_pc = "save"
    /\ \E resources \in ResourceCases :
           system_status' = Append(system_status, snapshot(resources, check_processes))
    /\ m_saved' = "row"
    /\ m_pc' = "check"
    /\ UNCHANGED <<running, instances, script_exists, m_k, m_status, m_attempts, m_failed,
                   m_prev_failed, m_polls>>
    /\ UNCHANGED pipeline_vars

\* save_status: check_system_resources or check_processes has caught an
\* exception and returned None: if not resources or not processes: return False
SaveStatusCheckFail ==
    /\ m_pc = "save"
    /\ m_saved' = "check failed"
    /\ m_pc' = "check"
    /\ UNCHANGED <<running, instances, script_exists, system_status, m_k, m_status, m_attempts,
                   m_failed, m_prev_failed, m_polls>>
    /\ UNCHANGED pipeline_vars

\* save_status: sqlite raises before the commit: except Exception: return False
SaveStatusStoreFail ==
    /\ m_pc = "save"
    /\ m_saved' = "store failed"
    /\ m_pc' = "check"
    /\ UNCHANGED <<running, instances, script_exists, system_status, m_k, m_status, m_attempts,
                   m_failed, m_prev_failed, m_polls>>
    /\ UNCHANGED pipeline_vars

\* check_and_restart_processes: status = self.check_processes()
CheckProcesses ==
    /\ m_pc = "check"
    /\ m_status' = check_processes
    /\ m_pc' = "restart"
    /\ m_k' = 1
    /\ UNCHANGED <<running, instances, script_exists, system_status, m_attempts, m_failed,
                   m_prev_failed, m_polls, m_saved>>
    /\ UNCHANGED pipeline_vars

\* check_processes has caught an exception: if not status: return
CheckProcessesFail ==
    /\ m_pc = "check"
    /\ m_pc' = "idle"
    /\ UNCHANGED <<running, instances, script_exists, system_status, m_k, m_status, m_attempts,
                   m_failed, m_prev_failed, m_polls, m_saved>>
    /\ UNCHANGED pipeline_vars

\* A supervisor that gives a role up after a failed restart.
should_restart_unless_failed(role) ==
    m_status[role] = 0 /\ role \notin m_prev_failed

\* A supervisor that starts every role at every poll.
should_restart_always(role) == TRUE

\* A supervisor that restarts workers in its first poll only.
should_restart_once(role) == m_status[role] = 0 /\ m_polls = 1

\* if status.get(status_key, 0) == 0:
should_restart(role) == m_status[role] = 0

\* A loop that a failed restart ends.
after_restart_or_stop(ok) ==
    IF ok
    THEN m_pc' = "restart" /\ m_k' = m_k + 1
    ELSE m_pc' = "idle" /\ m_k' = m_k

\* restart_process has returned True or False (it raises nothing): the for
\* loop goes to the next role.
after_restart(ok) == m_pc' = "restart" /\ m_k' = m_k + 1

\* The role runs: nothing is done for it.
SkipRunning ==
    /\ m_pc = "restart"
    /\ m_k <= Len(Roles)
    /\ ~should_restart(current_role)
    /\ after_restart(TRUE)
    /\ UNCHANGED <<running, instances, script_exists, system_status, m_status, m_attempts,
                   m_failed, m_prev_failed, m_polls, m_saved>>
    /\ UNCHANGED pipeline_vars

\* restart_process is called for the current role.
attempted == [m_attempts EXCEPT ![current_role] = @ + 1]

\* restart_process: the script exists and subprocess.Popen returns: the role runs.
RestartOk ==
    /\ m_pc = "restart"
    /\ m_k <= Len(Roles)
    /\ should_restart(current_role)
    /\ script_exists[current_role]
    /\ running' = [running EXCEPT ![current_role] = TRUE]
    /\ instances' = [instances EXCEPT ![current_role] = @ + 1]
    /\ m_attempts' = attempted
    /\ after_restart(TRUE)
    /\ UNCHANGED <<script_exists, system_status, m_status, m_failed, m_prev_failed,
                   m_polls, m_saved>>
    /\ UNCHANGED pipeline_vars

\* restart_process: if not os.path.exists(script_path): return False
RestartMissing ==
    /\ m_pc = "restart"
    /\ m_k <= Len(Roles)
    /\ should_restart(current_role)
    /\ ~script_exists[current_role]
    /\ m_attempts' = attempted
    /\ m_failed' = m_failed \cup {current_role}
    /\ after_restart(FALSE)
    /\ UNCHANGED <<running, instances, script_exists, system_status, m_status, m_prev_failed,
                   m_polls, m_saved>>
    /\ UNCHANGED pipeline_vars

\* The roles whose script the operating system may fail to start.
SpawnFailRoles == {Roles[3]}

\* restart_process: subprocess.Popen raises: except Exception: return False
RestartSpawnFail ==
    /\ m_pc = "restart"
    /\ m_k <= Len(Roles)
    /\ should_restart(current_role)
    /\ script_exists[current_role]
    /\ current_role \in SpawnFailRoles
    /\ m_attempts' = attempted
    /\ m_failed' = m_failed \cup {current_role}
    /\ after_restart(FALSE)
    /\ UNCHANGED <<running, instances, script_exists, system_status, m_status, m_prev_failed,
                   m_polls, m_saved>>
    /\ UNCHANGED pipeline_vars

\* The for loop is exhausted: run_monitoring returns.
PollDone ==
    /\ m_pc = "restart"
    /\ m_k > Len(Roles)
    /\ m_pc' = "idle"
    /\ UNCHANGED <<running, instances, script_exists, system_status, m_k, m_status, m_attempts,
                   m_failed, m_prev_failed, m_polls, m_saved>>
    /\ UNCHANGED pipeline_vars

\* A worker process ends, at any time.
ProcessDies ==
    /\ \E r \in RoleSet :
           /\ running[r]
           /\ instances' = [instances EXCEPT ![r] = @ - 1]
           /\ running' = [running EXCEPT ![r] = instances'[r] > 0]
    /\ UNCHANGED <<script_exists, system_status, m_pc, m_k, m_status, m_attempts,
                   m_failed, m_prev_failed, m_polls, m_saved>>
    /\ UNCHANGED pipeline_vars

\* Every script is in scripts_dir, or that of the second role is not.
ScriptCases ==
    {[r \in RoleSet |-> TRUE], [r \in RoleSet |-> r # Roles[2]]}

\* SystemMonitor.__init__ with the status table empty; any of the roles may
\* be down already.
MonitorInit ==
    /\ ProcessorInit
    /\ technical_analysis = [s \in SymbolSet |-> <<>>]
    /\ sentiment_rows = [s \in SymbolSet |-> <<>>]
    /\ trading_signals = <<>>
    /\ GeneratorIdle
    /\ NotifierIdle
    /\ ClockIdle
    /\ running \in [RoleSet -> BOOLEAN]
    /\ instances = [r \in RoleSet |-> IF running[r] THEN 1 ELSE 0]
    /\ script_exists \in ScriptCases
    /\ SupervisorIdle

MonitorNext ==
    \/ PollStart
    \/ SaveStatus
    \/ SaveStatusCheckFail
    \/ SaveStatusStoreFail
    \/ CheckProcesses
    \/ CheckProcessesFail
    \/ SkipRunning
    \/ RestartOk
    \/ RestartMissing
    \/ RestartSpawnFail
    \/ PollDone
    \/ ProcessDies

\* The polls of the supervisor over workers that may end at any time.
MonitorSpec == MonitorInit /\ [][MonitorNext]_vars

(***************************************************************************)
(* Properties                                                              *)
(***************************************************************************)
\* A batch of the fetch in progress has just been completed.
BatchDone == pc = "batch" /\ i > 0

\* The highest id whose scoring has succeeded so far (0 when there is none).
HighestScored == MaxOf(scored \cup {0})

\* C1: an item whose scoring failed and that has no row in sentiment_results is
\* never passed by a checkpoint: the processor's last_news_id and the analyzer's
\* last_processed_id, in memory and in their files, stay below its id, so that
\* it is fetched and attempted again.
C1_FailedItemNotSkipped ==
    \A k \in failed :
        k \notin stored =>
            /\ sent_file < k
            /\ proc_file < k
            /\ alive => (last_processed_id < k /\ last_news_id < k)

\* C2: the processor's last_news_id never decreases: the value in
\* processor_checkpoint.json over every step (restarts included), the value in
\* memory over every step of a living process.
C2_CheckpointMonotonic ==
    [][/\ proc_file' >= proc_file
       /\ (alive /\ alive') => last_news_id' >= last_news_id]_vars

\* C2 witness: the checkpoint has advanced, in memory and in the file, in a run
\* that has received a pause and a terminate request.
C2_Witness ==
    /\ alive
    /\ last_news_id >= 2
    /\ proc_file = last_news_id
    /\ pause_event
    /\ shutdown_flag

\* C3: between two cycles of the processing loop (every batch of the last fetch
\* is complete) and after a crash, every item whose scoring has succeeded and
\* whose id is at or below a persisted checkpoint (either file) has its row in
\* sentiment_results.
C3_DurableStateConsistent ==
    (pc \in {"loop", "down"}) =>
        \A k \in scored :
            (k <= proc_file \/ k <= sent_file) => k \in stored

Pending(k) ==
    /\ pc \in {"batch", "item", "batchend", "save"}
    /\ k \in Range(results)

\* k is above the checkpoints that decide what is fetched and analysed next,
\* so it will be attempted again.
Retried(k) ==
    IF alive
    THEN k > last_processed_id /\ k > last_news_id
    ELSE k > sent_file /\ k > proc_file

\* C5: no progress is lost: every item whose scoring has succeeded has its row
\* in sentiment_results, or its result is pending in the running process, or it
\* is still above the checkpoints and is scored again. (The checkpoints never
\* decrease, so an item for which none of the three holds never gets a row.)
C5_ScoredResultNotLost ==
    \A k \in scored : k \in stored \/ Pending(k) \/ Retried(k)

\* C6: a store failure in save_sentiment_results leaves the processor's
\* checkpoint unchanged and leaves every affected item above the checkpoints,
\* so that the next cycle fetches, scores and saves it again.
C6_SaveFailureRetried ==
    [][SaveFail =>
        /\ proc_file' = proc_file
        /\ last_news_id' = last_news_id
        /\ \A k \in Range(results) :
            k > last_news_id' /\ k > last_processed_id']_vars

C8_ShutdownTerminal ==
    [][(shutdown_flag /\ alive) =>
        /\ alive' => shutdown_flag'
        /\ ~Fetch]_vars

\* C9: after a terminate request no further batch is begun, whatever pause and
\* resume calls follow, and when the loop has exited every result the process
\* scored is saved and the checkpoint is flushed.
C9_NoBatchAfterTerminate ==
    [][/\ (shutdown_flag /\ alive) => ~BatchBegin
       /\ (pc' = "exit") =>
            (scoredRun' \subseteq stored' /\ proc_file' = last_news_id')]_vars

\* The loop is waiting in its pause branch, or about to enter it.
PausedWait == pc \in {"loop", "body"} /\ pause_event

\* C10: an interrupt sets the pause event; while it is set no fetch is made and
\* no batch is begun; once the loop waits in its pause branch every result the
\* process scored is in the store and both checkpoints are flushed; resume()
\* clears the pause event.
C10_PauseResume ==
    /\ [][/\ Interrupt => pause_event'
          /\ pause_event => (~Fetch /\ ~BatchBegin)
          /\ Resume => ~pause_event']_vars
    /\ [](PausedWait =>
            /\ scoredRun \subseteq stored
            /\ proc_file = last_news_id
            /\ sent_file = last_processed_id)

\* C11: after any sequence of runs, re-runs and restarts, sentiment_results
\* holds at most one row for each news_id: a save of an id that already has a
\* row replaces the row and adds none.
C11_OneRowPerNewsId ==
    \A k \in DOMAIN store : store[k] <= 1

\* C11 witness: a result has been saved for a news_id that already had a row,
\* and the id has one row.
C11_Witness ==
    \E k \in replaced : store[k] = 1

\* C12: a process that starts while a checkpoint file cannot be read does
\* start: it enters its loop with the zero-valued state for that file
\* (last_news_id 0, last_processed_id 0), and no process is ever unable to
\* start or holds a value that is not an id.
C12_UnreadableCheckpointStartsFresh ==
    [][/\ (pc = "down" /\ pc' # "down") =>
            /\ pc' = "loop"
            /\ proc_file = Unreadable => last_news_id' = 0
            /\ sent_file = Unreadable => last_processed_id' = 0
       /\ alive' => (last_news_id' >= 0 /\ last_processed_id' >= 0)]_vars

\* C12 witness: a process that found processor_checkpoint.json unreadable has
\* fetched from id 0, scored and committed results (the file is not yet
\* rewritten).
C12_Witness ==
    /\ pc = "ckpt"
    /\ proc_file = Unreadable
    /\ last_news_id = 0
    /\ results # <<>>

(***************************************************************************)
(* Properties of the signal generator                                      *)
(***************************************************************************)
Directional(sig) == sig \in {"BUY", "SELL"}

\* The outcomes of this invocation's fusions.
Fused == {f_outcome[s] : s \in {x \in SymbolSet : f_outcome[x].kind = "fused"}}

\* C13: for every pair of technical and sentiment-derived signal and every
\* pair of strengths that generate_signals has fused, the combined signal and
\* strength are those of the five-rule table: agreement on a directional
\* signal gives that signal with the mean; directional disagreement gives
\* NEUTRAL with the max; technical-only gives the technical signal with
\* 0.7*tech + 0.3*sent; sentiment-only gives the sentiment signal with
\* 0.6*sent + 0.4*tech; both NEUTRAL gives NEUTRAL with the mean.
C13_FusionTable ==
    \A o \in Fused :
        LET t == o.tech_signal
            x == o.tech_strength
            s == o.sent_signal
            y == o.sent_strength
        IN  /\ (Directional(t) /\ t = s) =>
                (o.combined_signal = t /\ 2 * o.combined_strength = x + y)
            /\ (Directional(t) /\ Directional(s) /\ t # s) =>
                /\ o.combined_signal = "NEUTRAL"
                /\ o.combined_strength \in {x, y}
                /\ o.combined_strength >= x
                /\ o.combined_strength >= y
            /\ (Directional(t) /\ s = "NEUTRAL") =>
                /\ o.combined_signal = t
                /\ 10 * o.combined_strength = 7 * x + 3 * y
            /\ (t = "NEUTRAL" /\ Directional(s)) =>
                /\ o.combined_signal = s
                /\ 10 * o.combined_strength = 6 * y + 4 * x
            /\ (t = "NEUTRAL" /\ s = "NEUTRAL") =>
                /\ o.combined_signal = "NEUTRAL"
                /\ 2 * o.combined_strength = x + y

\* C13 witness: one invocation has fused its first symbol by the
\* disagreement rule and its second symbol by the sentiment-only rule.
C13_Witness ==
    /\ f_pc = "save"
    /\ f_outcome[Symbols[1]].kind = "fused"
    /\ f_outcome[Symbols[1]].tech_signal = "BUY"
    /\ f_outcome[Symbols[1]].sent_signal = "SELL"
    /\ f_outcome[Symbols[1]].combined_signal = "NEUTRAL"
    /\ f_outcome[Symbols[2]].kind = "fused"
    /\ f_outcome[Symbols[2]].tech_signal = "NEUTRAL"
    /\ f_outcome[Symbols[2]].sent_signal = "SELL"
    /\ f_outcome[Symbols[2]].combined_signal = "SELL"

\* The fused outcomes with the given inputs.
FusedFrom(t, x, s, y) ==
    {o \in Fused : /\ o.tech_signal = t /\ o.tech_strength = Pct(x)
                   /\ o.sent_signal = s /\ o.sent_strength = Pct(y)}

\* C14: with the threshold 0.7, technical BUY(0.8) with sentiment BUY(0.9)
\* gives BUY 0.85, emitted; BUY(0.8) with SELL(0.6) gives NEUTRAL 0.8, emitted;
\* BUY(0.9) with NEUTRAL(0.5) gives BUY 0.78, emitted; NEUTRAL(0.5) with
\* SELL(0.75) gives SELL 0.65 and no signal is emitted.
C14_DeterminismTable ==
    /\ confidence_threshold = Pct(70)
    /\ \A o \in FusedFrom("BUY", 80, "BUY", 90) :
           o.combined_signal = "BUY" /\ o.combined_strength = Pct(85) /\ o.emitted
    /\ \A o \in FusedFrom("BUY", 80, "SELL", 60) :
           o.combined_signal = "NEUTRAL" /\ o.combined_strength = Pct(80) /\ o.emitted
    /\ \A o \in FusedFrom("BUY", 90, "NEUTRAL", 50) :
           o.combined_signal = "BUY" /\ o.combined_strength = Pct(78) /\ o.emitted
    /\ \A o \in FusedFrom("NEUTRAL", 50, "SELL", 75) :
           o.combined_signal = "SELL" /\ o.combined_strength = Pct(65) /\ ~o.emitted
    /\ \A s \in SymbolSet :
           (f_outcome[s].kind = "fused" /\ ~f_outcome[s].emitted) =>
               \A n \in 1..Len(f_signals) : f_signals[n].symbol # s

\* C14 witness: one invocation has fused BUY(0.9) with NEUTRAL(0.5) for its
\* first symbol and NEUTRAL(0.5) with SELL(0.75) for its second: one signal is
\* in the list.
C14_Witness ==
    /\ f_pc = "save"
    /\ f_outcome[Symbols[1]] \in FusedFrom("BUY", 90, "NEUTRAL", 50)
    /\ f_outcome[Symbols[2]] \in FusedFrom("NEUTRAL", 50, "SELL", 75)
    /\ Len(f_signals) = 1
    /\ f_signals[1].symbol = Symbols[1]

\* The signals list holds a signal of the symbol.
InList(s) == \E n \in 1..Len(f_signals) : f_signals[n].symbol = s

\* trading_signals holds the signal this invocation computed for the symbol.
Persisted(s) ==
    \E n \in 1..Len(trading_signals) :
        trading_signals[n].signal = signal_of(s, f_outcome[s])

\* C15 as stated: when an invocation is over, the signal computed for a symbol
\* is in trading_signals if and only if its combined_strength is greater than
\* or equal to confidence_threshold.
C15_PersistedIffThreshold ==
    (f_pc = "idle" /\ f_runs > 0) =>
        \A s \in SymbolSet :
            f_outcome[s].kind = "fused" =>
                (Persisted(s) <=> f_outcome[s].combined_strength >= confidence_threshold)

\* C15 as amended: a signal is appended to the invocation's list if and only
\* if its combined_strength is greater than or equal to confidence_threshold
\* (equality appends); every row of trading_signals has a confidence greater
\* than or equal to it; save_signals writes either all signals of the list or,
\* when the store fails, none.
C15_EmittedIffThreshold ==
    [][/\ \A s \in SymbolSet :
            f_outcome'[s].kind = "fused" =>
                (InList(s)' <=> f_outcome'[s].combined_strength >= confidence_threshold)
       /\ \A n \in 1..Len(trading_signals') :
            trading_signals'[n].signal.confidence >= confidence_threshold
       /\ (f_pc = "save" /\ f_pc' = "idle") =>
            \/ trading_signals' = trading_signals
            \/ /\ Len(trading_signals') = Len(trading_signals) + Len(f_signals)
               /\ \A n \in 1..Len(f_signals) :
                    trading_signals'[Len(trading_signals) + n].signal = f_signals[n]
       /\ f_pc' # "idle" => trading_signals' = trading_signals]_vars

\* C15 witness: an invocation is over that computed exactly the threshold for
\* its first symbol and less for its second; the first is in trading_signals,
\* the second is not.
C15_Witness ==
    /\ f_pc = "idle"
    /\ f_outcome[Symbols[1]].kind = "fused"
    /\ f_outcome[Symbols[1]].combined_strength = confidence_threshold
    /\ Persisted(Symbols[1])
    /\ f_outcome[Symbols[2]].kind = "fused"
    /\ f_outcome[Symbols[2]].combined_strength < confidence_threshold
    /\ ~Persisted(Symbols[2])

\* C16: a symbol that two successive invocations have fused, against the same
\* technical_analysis and sentiment rows, has the same combined signal and the
\* same combined strength in both.
C16_RerunIdentical ==
    \A s \in SymbolSet :
        (f_outcome[s].kind = "fused" /\ f_last[s].kind = "fused") =>
            /\ f_outcome[s].combined_signal = f_last[s].combined_signal
            /\ f_outcome[s].combined_strength = f_last[s].combined_strength

\* C17: a symbol with no technical_analysis row is passed over, whatever
\* sentiment rows it has: the invocation has no signal for it and no row of
\* trading_signals is its; the loop goes on, so that every symbol before the
\* current one has been dealt with and all have when the loop is left.
C17_NoTechnicalRowSkipped ==
    /\ \A s \in SymbolSet :
           technical_analysis[s] = <<>> =>
               /\ f_outcome[s].kind \in {"none", "skipped"}
               /\ ~InList(s)
               /\ \A n \in 1..Len(trading_signals) :
                      trading_signals[n].signal.symbol # s
    /\ f_pc = "symbol" =>
           \A n \in 1..Len(Symbols) : n < f_k => f_outcome[Symbols[n]].kind # "none"
    /\ f_pc = "save" =>
           \A s \in SymbolSet : f_outcome[s].kind # "none"

\* C17 witness: the first symbol has sentiment rows and no technical row and
\* was passed over; the second symbol was fused and its signal is in the list.
C17_Witness ==
    /\ f_pc = "save"
    /\ technical_analysis[Symbols[1]] = <<>>
    /\ sentiment_rows[Symbols[1]] # <<>>
    /\ f_outcome[Symbols[1]].kind = "skipped"
    /\ f_outcome[Symbols[2]].kind = "fused"
    /\ InList(Symbols[2])

\* C18: a symbol with no sentiment row is fused with the sentiment signal
\* NEUTRAL and the strength 0.5: a directional technical signal is kept with
\* 0.7*tech + 0.15, a NEUTRAL one gives NEUTRAL with the mean of tech and 0.5.
C18_NoSentimentRowsDefault ==
    \A s \in SymbolSet :
        (sentiment_rows[s] = <<>> /\ f_outcome[s].kind = "fused") =>
            LET o == f_outcome[s] IN
            /\ o.sent_signal = "NEUTRAL"
            /\ o.sent_strength = Pct(50)
            /\ Directional(o.tech_signal) =>
                   /\ o.combined_signal = o.tech_signal
                   /\ 10 * o.combined_strength = 7 * o.tech_strength + 10 * Pct(15)
            /\ o.tech_signal = "NEUTRAL" =>
                   /\ o.combined_signal = "NEUTRAL"
                   /\ 2 * o.combined_strength = o.tech_strength + Pct(50)

\* C18 witness: neither symbol has a sentiment row; the first was fused from
\* BUY(0.9) to BUY 0.78, the second from NEUTRAL(0.5) to NEUTRAL 0.5.
C18_Witness ==
    /\ f_pc = "save"
    /\ \A s \in SymbolSet : sentiment_rows[s] = <<>> /\ f_outcome[s].kind = "fused"
    /\ f_outcome[Symbols[1]].tech_strength = Pct(90)
    /\ f_outcome[Symbols[1]].combined_signal = "BUY"
    /\ f_outcome[Symbols[1]].combined_strength = Pct(78)
    /\ f_outcome[Symbols[2]].combined_signal = "NEUTRAL"
    /\ f_outcome[Symbols[2]].combined_strength = Pct(50)

\* The reason has a clause of the set.
HasClause(reason, clauses) == \E n \in 1..Len(reason) : reason[n] \in clauses

\* C19: the reason of a signal in the list has the technical clause if and
\* only if the technical signal is BUY or SELL and the sentiment clause if
\* and only if the sentiment-derived signal is BUY or SELL; two clauses are
\* joined by the connective, the technical one first; the reason is empty
\* when neither signal is directional.
C19_ReasonClauses ==
    \A n \in 1..Len(f_signals) :
        LET sig == f_signals[n]
            reason == sig.reason
            tech == Directional(sig.technical_signal)
            sent == Directional(sig.sentiment_signal)
        IN  /\ HasClause(reason, TechnicalClauses) <=> tech
            /\ HasClause(reason, SentimentClauses) <=> sent
            /\ (tech /\ sent) =>
                   /\ Len(reason) = 3
                   /\ reason[1] \in TechnicalClauses
                   /\ reason[2] = " und "
                   /\ reason[3] \in SentimentClauses
            /\ (tech /\ ~sent) => (Len(reason) = 1 /\ reason[1] \in TechnicalClauses)
            /\ (~tech /\ sent) => (Len(reason) = 1 /\ reason[1] \in SentimentClauses)
            /\ (~tech /\ ~sent) => reason = <<>>

\* C19 witness: the list holds a NEUTRAL signal fused from two NEUTRAL signals,
\* whose reason is empty, and a signal whose reason joins two clauses.
C19_Witness ==
    /\ Len(f_signals) = 2
    /\ f_signals[1].technical_signal = "NEUTRAL"
    /\ f_signals[1].sentiment_signal = "NEUTRAL"
    /\ f_signals[1].reason = <<>>
    /\ Len(f_signals[2].reason) = 3

(***************************************************************************)
(* Properties of the notifier job                                          *)
(***************************************************************************)
\* C20: a row of trading_signals has notified = 1 only if a send of that
\* signal has succeeded before.
C20_NotifiedOnlyAfterSend ==
    \A n \in 1..Len(trading_signals) :
        trading_signals[n].notified => n \in delivered

\* C20 witness: one signal has been sent and marked, a second one has been
\* refused by send_signal and is left unnotified and undelivered.
C20_Witness ==
    /\ Len(trading_signals) = 2
    /\ trading_signals[1].notified
    /\ 1 \in delivered
    /\ ~trading_signals[2].notified
    /\ 2 \notin delivered
    /\ g_pc = "sent"
    /\ current_signal = 2
    /\ ~g_result

\* C21: the notified column of a row never goes from 1 back to 0, a new row
\* has notified = 0, rows are never removed, and a step that takes a row from
\* 0 to 1 is the notification job marking the signal it has just sent; so no
\* step of the signal generation job, of save_signals, of verify_signal or
\* of the daily summary job changes the column.
C21_NotifiedFlipsOnce ==
    [][/\ Len(trading_signals') >= Len(trading_signals)
       /\ \A n \in 1..Len(trading_signals') :
              n > Len(trading_signals) => ~trading_signals'[n].notified
       /\ \A n \in 1..Len(trading_signals) :
              /\ trading_signals[n].notified => trading_signals'[n].notified
              /\ (~trading_signals[n].notified /\ trading_signals'[n].notified) =>
                     /\ g_pc = "sent"
                     /\ g_result
                     /\ current_signal = n
                     /\ n \in delivered]_vars

\* C21 witness: the first signal has been sent, marked and verified, a second
\* one has been saved after it and is not notified, and a daily summary with
\* both has gone out.
C21_Witness ==
    /\ Len(trading_signals) = 2
    /\ trading_signals[1].notified
    /\ trading_signals[1].verified
    /\ ~trading_signals[2].notified
    /\ summary.sent
    /\ summary.selected = {1, 2}

AttemptInQuietConfig == g_pc = "sent" /\ config.quiet_hours.enabled

\* The attempt was refused or its transport failed: nothing went out.
NothingSent == ~g_result

\* The four attempts the specification lists for the window 22:00 to 07:30:
\* those at 23:00 and at 06:00 are in quiet hours and send nothing, those at
\* 08:00 and at 21:59 are not in quiet hours.
C23_ListedTimes ==
    (AttemptInQuietConfig /\ config.quiet_hours = default_config.quiet_hours) =>
        /\ clock \in {HM(23, 0), HM(6, 0)} => (is_in_quiet_hours /\ NothingSent)
        /\ clock \in {HM(8, 0), HM(21, 59)} => ~is_in_quiet_hours

\* C23: under the window 22:00 to 07:30 an attempt at 23:00 or at 06:00 is in
\* quiet hours and sends nothing and one at 08:00 or at 21:59 is not in quiet
\* hours; and under any enabled window with start > end, an attempt is in
\* quiet hours if and only if its time is at or after start or before end.
C23_QuietHoursWrapping ==
    /\ C23_ListedTimes
    /\ (AttemptInQuietConfig /\ config.quiet_hours.start > config.quiet_hours.end) =>
           (is_in_quiet_hours <=>
               (clock >= config.quiet_hours.start \/ clock < config.quiet_hours.end))

\* An attempt at exactly the start time of the window is in quiet hours and
\* sends nothing.
C24_StartSuppressed ==
    (AttemptInQuietConfig /\ clock = config.quiet_hours.start) =>
        (is_in_quiet_hours /\ NothingSent)

\* An attempt at exactly the end time of a window within a day (start < end)
\* is not in quiet hours.
C24_EndAllowedWithinDay ==
    (/\ AttemptInQuietConfig
     /\ config.quiet_hours.start < config.quiet_hours.end
     /\ clock = config.quiet_hours.end) => ~is_in_quiet_hours

\* C24: the window is [start, end): under enabled quiet hours an attempt at
\* exactly the start time is in quiet hours and sends nothing, and an attempt
\* at exactly the end time is not in quiet hours, whether the window wraps
\* midnight or not.
C24_WindowHalfOpen ==
    /\ C24_StartSuppressed
    /\ (AttemptInQuietConfig /\ clock = config.quiet_hours.end) => ~is_in_quiet_hours

\* C25: under weekend suppression with collect_for_monday off, a signal
\* generated on a Saturday is never sent and its row is never notified.
C25_SaturdaySignalNeverDelivered ==
    (config.weekends.enabled /\ ~config.weekends.collect_for_monday) =>
        \A n \in 1..Len(trading_signals) :
            trading_signals[n].signal.timestamp.weekday = 5 =>
                /\ n \notin delivered
                /\ ~trading_signals[n].notified

\* Under weekend suppression with collect_for_monday off, no attempt made on
\* a Saturday or a Sunday sends anything.
C25_DroppedDuringWeekend ==
    (/\ g_pc = "sent"
     /\ config.weekends.enabled
     /\ ~config.weekends.collect_for_monday
     /\ weekday >= 5) => NothingSent

\* C26: under weekend suppression, whatever collect_for_monday is, an attempt
\* made on a Saturday or a Sunday sends nothing (so that the signal stays
\* unnotified during the weekend).
C26_NoWeekendTransport ==
    (g_pc = "sent" /\ config.weekends.enabled /\ weekday >= 5) => NothingSent

\* The rows a daily summary job that sends has selected are all the rows of
\* its day, notified or not, and the job leaves trading_signals as it was.
C27_SummarySelectsTheDay ==
    [][summary' # summary =>
          /\ summary'.sent => summary'.selected = todays_signals
          /\ trading_signals' = trading_signals]_vars

\* C27: a daily summary that has been sent has a line for every signal the
\* job selected, that is, for every signal of its day, notified or not.
C27_SummaryCoversTheDay == summary.sent => summary.listed = summary.selected

(***************************************************************************)
(* Properties of the supervisor                                            *)
(***************************************************************************)
\* The for loop of this poll has dealt with the k-th role.
Passed(k) == m_pc = "idle" \/ (m_pc = "restart" /\ k < m_k)

\* C28: in a poll whose process check has returned, restart_process has been
\* called exactly once for every role the loop has dealt with that the check
\* found not running, whatever happened to that role in the polls before, and
\* not at all for any other role; before the check has returned it has been
\* called for no role.
C28_OneAttemptPerDownRole ==
    \A k \in 1..Len(Roles) :
        m_attempts[Roles[k]] =
            IF m_status # NoStatus /\ Passed(k) /\ m_status[Roles[k]] = 0 THEN 1 ELSE 0

\* C28 witness: the second poll has found three of the four roles not running
\* and has made three attempts, one of them for a role whose restart failed
\* in the first poll.
C28_Witness ==
    /\ m_polls = 2
    /\ m_pc = "idle"
    /\ Cardinality({r \in RoleSet : m_status[r] = 0}) = 3
    /\ Cardinality({r \in RoleSet : m_attempts[r] = 1}) = 3
    /\ \E r \in m_prev_failed : m_attempts[r] = 1

\* The rows of system_status are never changed or removed, a poll adds at
\* most one, and the row it adds has the four liveness values of the process
\* table at the time.
C29_AppendOnly ==
    [][/\ Len(system_status') \in {Len(system_status), Len(system_status) + 1}
       /\ \A n \in 1..Len(system_status) : system_status'[n] = system_status[n]
       /\ Len(system_status') > Len(system_status) =>
              /\ m_pc = "save"
              /\ \E resources \in ResourceCases :
                     system_status'[Len(system_status')] =
                         snapshot(resources, check_processes)]_vars

\* C29: once save_status has returned in a poll, by its INSERT or because a
\* resource or process check failed, system_status has one row for every poll
\* started so far.
C29_OneRowPerPoll ==
    m_saved \in {"row", "check failed"} => Len(system_status) = m_polls

C31_RequestsAtBatchBoundaries ==
    [][/\ (pc = "batch" /\ pc' = "item") => j' = i + 1
       /\ (pc = "item" /\ pc' # "down") =>
              \/ /\ pc' = "item"
                 /\ j' \in {j, j + 1}
                 /\ i' = i
                 /\ news_items' = news_items
              \/ /\ pc' = "batchend"
                 /\ j = batch_last(news_items, i)
       /\ since_pause' <= BatchSize]_vars

\* C31 witness: a request came in before the first item of a batch was
\* analysed; the whole batch has been analysed since, and process_news_batch
\* has returned with items of the fetch left over.
C31_Witness ==
    /\ pause_event
    /\ since_pause = BatchSize
    /\ pc = "save"
    /\ i < Len(news_items)

(***************************************************************************)
(* Suppression at delivery time                                            *)
(***************************************************************************)
\* The suppression window of the specification at the time of an attempt:
\* quiet hours [start, end), and the weekend under weekend suppression.
InStatedWindow ==
    \/ /\ config.quiet_hours.enabled
       /\ LET start == config.quiet_hours.start
              end == config.quiet_hours.end
          IN  IF start > end
              THEN clock >= start \/ clock < end
              ELSE start <= clock /\ clock < end
    \/ /\ config.weekends.enabled
       /\ weekday >= 5

\* The transport of the attempt that has just returned did not raise.
TransportWorked == current_signal \notin g_failed

\* C32: an attempt made inside the suppression window sends nothing, so that
\* the signal stays unnotified, and an attempt made outside it whose transport
\* works sends the signal.
C32_DeliveredOutsideWindow ==
    g_pc = "sent" =>
        /\ InStatedWindow => NothingSent
        /\ (~InStatedWindow /\ TransportWorked) => ~NothingSent

\* The same with the test send_signal makes: an attempt that send_signal
\* refuses sends nothing, and one it does not refuse and whose transport
\* works sends the signal.
C32_DeliveredUnlessSuppressed ==
    g_pc = "sent" =>
        /\ suppressed => (NothingSent /\ ~trading_signals[current_signal].notified)
        /\ (~suppressed /\ TransportWorked) =>
               (~NothingSent /\ current_signal \in delivered)

\* A notification job takes up every unnotified signal, whenever it was
\* created; the step after a send that went out marks the signal, and no other
\* step changes a notified column.
C32_EveryInvocationTakesAll ==
    [][/\ (g_pc = "idle" /\ g_pc' = "send") =>
              \A n \in 1..Len(trading_signals) :
                  ~trading_signals[n].notified =>
                      \E k \in 1..Len(g_signals') : g_signals'[k] = n
       /\ (g_pc = "sent" /\ g_pc' # "sent" /\ g_result) =>
              trading_signals'[current_signal].notified
       /\ \A n \in 1..Len(trading_signals) :
              trading_signals'[n].notified # trading_signals[n].notified =>
                  (g_pc = "sent" /\ g_result /\ n = current_signal)]_vars

(***************************************************************************)
(* The notifier under fair scheduling: the scheduler loop runs             *)
(* send_notifications every five minutes for as long as the process lives, *)
(* so time passes through every time of day and a job is run at each.      *)
(***************************************************************************)
\* The times of day still to come today.
later_points == {t \in TimePoints : t > clock}

\* The clock moves to the next time of day at which it is read.
ClockStep ==
    /\ BetweenJobs
    /\ later_points # {}
    /\ clock' = CHOOSE t \in later_points : \A u \in later_points : t <= u
    /\ UNCHANGED <<config, weekday, today>>
    /\ UNCHANGED <<trading_signals, summary>>
    /\ UNCHANGED <<proc_vars, fusion_vars, gate_vars, monitor_vars>>

\* Midnight passes after the last time of the day; the days after the
\* MaxDays-th are not told apart.
Midnight ==
    /\ BetweenJobs
    /\ later_points = {}
    /\ clock' = CHOOSE t \in TimePoints : \A u \in TimePoints : t <= u
    /\ weekday' = (weekday + 1) % 7
    /\ today' = IF today < MaxDays THEN today + 1 ELSE today
    /\ UNCHANGED config
    /\ UNCHANGED <<trading_signals, summary>>
    /\ UNCHANGED <<proc_vars, fusion_vars, gate_vars, monitor_vars>>

\* Two signal generation jobs have run on a Saturday at 06:00, inside the
\* default quiet hours, and have saved one signal each; the notifier is started.
PolicyFairInit ==
    /\ ProcessorInit
    /\ GateTables
    /\ GeneratorIdle
    /\ NotifierIdle
    /\ config \in ConfigCases
    /\ weekday = 5
    /\ today = 0
    /\ clock = HM(6, 0)
    /\ trading_signals =
           LET row == inserted_row(signal_of(Symbols[1],
                           fused(get_latest_technical_analysis(Symbols[1]),
                                 get_latest_sentiment(Symbols[1]))))
           IN  <<row, row>>
    /\ summary = NoSummary
    /\ MonitorIdle

PolicyFairNext ==
    \/ NotifyStart
    \/ SendSuppressed
    \/ SendOk
    \/ SendFail
    \/ MarkNotified
    \/ NotMarked
    \/ ClockStep
    \/ Midnight

\* Time passes between two jobs; a notification job is run again and again
\* at the times at which send_signal does not refuse; a job that has started
\* goes on to its end; and the transport does not fail for ever.
PolicyFairSpec ==
    /\ PolicyFairInit
    /\ [][PolicyFairNext]_vars
    /\ SF_vars(ClockStep \/ Midnight)
    /\ SF_vars(NotifyStart /\ ~suppressed)
    /\ WF_vars(SendSuppressed \/ SendOk \/ SendFail)
    /\ SF_vars(SendOk)
    /\ WF_vars(MarkNotified \/ NotMarked)

\* Under fair scheduling every signal in the store is eventually delivered
\* and marked notified.
C32_EventuallyDelivered ==
    \A n \in 1..MaxRuns :
        (n <= Len(trading_signals) /\ ~trading_signals[n].notified) ~>
            (n \in delivered /\ trading_signals[n].notified)

(***************************************************************************)
(* Two notifier processes: run_notifier.py started twice on the same       *)
(* market_data.db.  Each has its own list and loop position; the notified  *)
(* column and the recipient are shared.  Nothing in send_notifications     *)
(* locks the rows it has selected.                                         *)
(***************************************************************************)
first_vars == <<g_pc, g_signals, g_k, g_result, g_failed>>

\* The signal of the current iteration in the second process.
second_signal == g2_signals[g2_k]

\* send_notifications in the second process: the unnotified signals are
\* fetched; if not signals: return.
SecondNotifyStart ==
    /\ g2_pc = "idle"
    /\ g2_signals' = get_unnotified_signals
    /\ IF get_unnotified_signals = <<>>
       THEN g2_pc' = "idle" /\ g2_k' = 0
       ELSE g2_pc' = "send" /\ g2_k' = 1
    /\ overlapped' = (overlapped \/ g_pc # "idle")
    /\ UNCHANGED <<g2_result, delivered, trading_signals, first_vars>>
    /\ UNCHANGED <<proc_vars, fusion_vars, outer_vars>>

\* notifier.send_signal(signal) in the second process: refused, sent, or
\* failed with TelegramError.
SecondSend ==
    /\ g2_pc = "send"
    /\ \E sent \in BOOLEAN :
           /\ sent => ~suppressed
           /\ g2_result' = sent
           /\ delivered' = IF sent THEN delivered \cup {second_signal} ELSE delivered
    /\ g2_pc' = "sent"
    /\ UNCHANGED <<g2_signals, g2_k, overlapped, trading_signals, first_vars>>
    /\ UNCHANGED <<proc_vars, fusion_vars, outer_vars>>

\* if notifier.send_signal(signal): generator.mark_as_notified(signal['id']),
\* and the loop of the second process moves on.
SecondMark ==
    /\ g2_pc = "sent"
    /\ trading_signals' = IF send_confirmed(g2_result)
                          THEN mark_as_notified(second_signal)
                          ELSE trading_signals
    /\ IF g2_k >= Len(g2_signals)
       THEN g2_pc' = "idle" /\ g2_k' = g2_k
       ELSE g2_pc' = "send" /\ g2_k' = g2_k + 1
    /\ UNCHANGED <<g2_signals, g2_result, overlapped, delivered, first_vars>>
    /\ UNCHANGED <<proc_vars, fusion_vars, outer_vars>>

\* Two signal generation jobs have saved one signal each; both notifier
\* processes are started on a Monday at 06:00 with the default configuration.
OverlapInit ==
    /\ ProcessorInit
    /\ GateTables
    /\ GeneratorIdle
    /\ NotifierIdle
    /\ config = default_config
    /\ weekday = 0
    /\ today = 0
    /\ clock = HM(6, 0)
    /\ trading_signals =
           LET row == inserted_row(signal_of(Symbols[1],
                           fused(get_latest_technical_analysis(Symbols[1]),
                                 get_latest_sentiment(Symbols[1]))))
           IN  <<row, row>>
    /\ summary = NoSummary
    /\ MonitorIdle

OverlapNext ==
    \/ NotifyStart
    \/ SendSuppressed
    \/ SendOk
    \/ SendFail
    \/ MarkNotified
    \/ NotMarked
    \/ SecondNotifyStart
    \/ SecondSend
    \/ SecondMark
    \/ Tick

\* The jobs of two notifier processes on one day, with no crash and no
\* failure of a mark write.
OverlapSpec == OverlapInit /\ [][OverlapNext]_vars

(***************************************************************************)
(* Properties of the two notifier processes                                *)
(***************************************************************************)
\* The step is a send of the first, resp. second, process that goes out.
FirstSendsOut == g_pc = "send" /\ g_pc' = "sent" /\ g_result'

SecondSendsOut == g2_pc = "send" /\ g2_pc' = "sent" /\ g2_result'

\* C33: as long as no job has started while a job of the other process was
\* running, no send that goes out is of a signal that has gone out before,
\* and no job has a notified signal as its current one or still before it.
C33_AtMostOnceUnlessOverlapping ==
    [][/\ (FirstSendsOut /\ ~overlapped) => current_signal \notin delivered
       /\ (SecondSendsOut /\ ~overlapped) => second_signal \notin delivered
       /\ ~overlapped' =>
              /\ g_pc' # "idle" =>
                     \A k \in g_k'..Len(g_signals') :
                         (k > g_k' \/ g_pc' = "send") =>
                             ~trading_signals'[g_signals'[k]].notified
              /\ g2_pc' # "idle" =>
                     \A k \in g2_k'..Len(g2_signals') :
                         (k > g2_k' \/ g2_pc' = "send") =>
                             ~trading_signals'[g2_signals'[k]].notified]_vars

\* C33 witness: the jobs have overlapped; the first process has sent a signal
\* and marked it, and the second process has just sent the same signal again.
C33_Witness ==
    /\ overlapped
    /\ g2_pc = "sent"
    /\ g2_result
    /\ trading_signals[second_signal].notified
    /\ g_pc = "idle"
    /\ \A n \in 1..Len(trading_signals) : trading_signals[n].notified

(***************************************************************************)
(* The supervisor under fair polling: run_maintenance.main runs            *)
(* run_monitoring at its start and then every fifteen minutes, for ever,   *)
(* and a poll that has started goes on to its end.  Which roles are down   *)
(* is given at the start; a role is down later when its restart failed or  *)
(* was not attempted.                                                      *)
(***************************************************************************)
MonitorFairNext ==
    \/ PollStart
    \/ SaveStatus
    \/ SaveStatusCheckFail
    \/ SaveStatusStoreFail
    \/ CheckProcesses
    \/ CheckProcessesFail
    \/ SkipRunning
    \/ RestartOk
    \/ RestartMissing
    \/ RestartSpawnFail
    \/ PollDone

MonitorFairSpec ==
    /\ MonitorInit
    /\ [][MonitorFairNext]_vars
    /\ WF_vars(MonitorFairNext)

\* The supervisor is between two polls, p polls have been made, and the role
\* is down although its script exists.
DownBeforePoll(r, p) ==
    /\ m_pc = "idle"
    /\ m_polls = p
    /\ ~running[r]
    /\ script_exists[r]

\* The latest poll is over and has not restarted the role because its process
\* check failed or because the spawn of the role raised.
PollFailedFor(r) ==
    /\ m_pc = "idle"
    /\ m_status = NoStatus \/ r \in m_failed

recorded(row) ==
    [r \in RoleSet |->
        CASE r = "data_collector" -> row.data_collector_running
          [] r = "technical_analyzer" -> row.technical_analyzer_running
          [] r = "signal_generator" -> row.signal_generator_running
          [] r = "notifier" -> row.notifier_running]

\* C35: when a poll that has written its row and made its process check is
\* over, the roles for which restart_process has been called in it are the
\* roles its row records as not running.
C35_AttemptsMatchSnapshot ==
    (m_pc = "idle" /\ m_saved = "row" /\ m_status # NoStatus) =>
        {r \in RoleSet : m_attempts[r] > 0} =
            {r \in RoleSet : recorded(system_status[Len(system_status)])[r] = 0}

\* What holds instead: the roles attempted are those the poll's own process
\* check, made after the row was written, found not running.
C35_AttemptsMatchCheck ==
    (m_pc = "idle" /\ m_status # NoStatus) =>
        {r \in RoleSet : m_attempts[r] > 0} = {r \in RoleSet : m_status[r] = 0}

(***************************************************************************)
(* The number of processes of a role                                       *)
(***************************************************************************)
\* C36: restart_process has been called in a poll only for roles the poll's
\* process check found not running, and no role has more than one process.
C36_AtMostOneInstance ==
    \A r \in RoleSet :
        /\ m_attempts[r] > 0 => m_status[r] = 0
        /\ instances[r] <= 1

\* C36 witness: the second poll has found one role not running and has
\* started it, and has found another role running, which the first poll had
\* started, and has passed it over.
C36_Witness ==
    /\ m_polls = 2
    /\ m_pc = "idle"
    /\ Len(system_status) = 2
    /\ \E r1, r2 \in RoleSet :
           /\ m_status[r1] = 0
           /\ m_attempts[r1] = 1
           /\ instances[r1] = 1
           /\ m_status[r2] = 1
           /\ m_attempts[r2] = 0
           /\ instances[r2] = 1
           /\ recorded(system_status[1])[r2] = 0

(***************************************************************************)
(* The combined signal against its two inputs                              *)
(***************************************************************************)
\* The strength is in [0, 1].
InUnit(strength) == strength \in 0..One

\* C37: what generate_signals has combined for a symbol is BUY only if neither
\* input is SELL and one of them is BUY, SELL only if neither input is BUY and
\* one of them is SELL, and has a strength in [0, 1] when both input strengths
\* are in [0, 1].
C37_NoContradiction ==
    \A s \in SymbolSet :
        f_outcome[s].kind = "fused" =>
            LET o == f_outcome[s]
                inputs == {o.tech_signal, o.sent_signal}
            IN  /\ o.combined_signal = "BUY" => ("SELL" \notin inputs /\ "BUY" \in inputs)
                /\ o.combined_signal = "SELL" => ("BUY" \notin inputs /\ "SELL" \in inputs)
                /\ (InUnit(o.tech_strength) /\ InUnit(o.sent_strength)) =>
                       InUnit(o.combined_strength)

\* C37 witness: a technical BUY of strength 1.0 has been combined with a
\* negative sentiment, and the result is NEUTRAL with strength 1.0.
C37_Witness ==
    \E s \in SymbolSet :
        /\ f_outcome[s].kind = "fused"
        /\ f_outcome[s].tech_signal = "BUY"
        /\ f_outcome[s].tech_strength = One
        /\ f_outcome[s].sent_signal = "SELL"
        /\ f_outcome[s].combined_signal = "NEUTRAL"
        /\ f_outcome[s].combined_strength = One

(***************************************************************************)
(* The two checkpoints against each other                                  *)
(***************************************************************************)
\* C38: the processor's last_news_id is never above the analyzer's
\* last_processed_id, in the memory of the process and in the two files.
C38_ProcessorNotAhead ==
    /\ last_news_id <= last_processed_id
    /\ proc_file <= sent_file

\* C38 witness: results have been saved and both files written; the save of
\* a later fetch has failed, so that the processor's checkpoint is behind the
\* analyzer's in memory and on disk, every item having been scored.
C38_Witness ==
    /\ pc = "loop"
    /\ ~pause_event
    /\ 0 < last_news_id
    /\ last_news_id < last_processed_id
    /\ proc_file = last_news_id
    /\ sent_file = last_processed_id
    /\ since_pause = 0
    /\ scored = 1..MaxNews

====
